---- MODULE Spec2Model ----
(***************************************************************************)
(* Sports-data core of test-mcp-server: the TTL game-list cache            *)
(* (server/services/cache.py), the sports clients' mock/live mode switch   *)
(* (server/services/sports/*/client.py) and the two sports handlers        *)
(* (server/handlers/sports.py).                                            *)
(*                                                                         *)
(* Strings that the code inspects character by character (dates, game      *)
(* fields, cache keys) are sequences of one-character strings.             *)
(***************************************************************************)
EXTENDS Integers, Sequences, FiniteSets, TLC

VARIABLES
    game_list_cache,   \* cache.py _game_list_cache: the TTLCache's stored items
    now,               \* the TTLCache timer (time.monotonic), in whole ticks
    ret,               \* the last call: its name, arguments and return value
    admitted_at,       \* history: when each key was last admitted by cache_games
    CONFIG,            \* server.config.CONFIG: the fields the clients read
    requests,          \* upstream HTTP GETs issued so far, in order
    pending,           \* handler calls suspended at an await of an upstream fetch
    _registry,         \* SportsClientFactory._registry: sport name -> client class
    clients,           \* the client instances callers of create_client hold
    _requests,         \* RateLimitMiddleware._requests: client ip -> recorded times
    passed_on          \* client ip -> the times call_next ran for its limited requests

vars ==
    <<game_list_cache, now, ret, admitted_at, CONFIG, requests, pending, _registry,
      clients, _requests, passed_on>>

-----------------------------------------------------------------------------
(* Bounds of the model *)

\* CONFIG.cache_max_size, scaled down
MaxSize == 2
\* CONFIG.cache_ttl_seconds, scaled down to ticks
Ttl == 2
\* the timer stops advancing here
MaxTime == 3
\* longest game list passed to cache_games or returned by upstream
MaxLen == 2
\* handler calls that may be suspended at the same time
MaxPending == 1

-----------------------------------------------------------------------------
(* Values *)

\* Optional[T]: Python None, or a value
None == [tag |-> "None", val |-> <<>>]
Some(v) == [tag |-> "Some", val |-> v]

\* str.strip() characters occurring in the model
Whitespace == {" ", "\t"}

RECURSIVE lstrip(_)
lstrip(s) ==
    IF s = <<>> THEN s
    ELSE IF Head(s) \in Whitespace THEN lstrip(Tail(s)) ELSE s

RECURSIVE rstrip(_)
rstrip(s) ==
    IF s = <<>> THEN s
    ELSE IF s[Len(s)] \in Whitespace THEN rstrip(SubSeq(s, 1, Len(s) - 1)) ELSE s

strip(s) == rstrip(lstrip(s))

\* dates (YYYYMMDD) and sports used as cache coordinates
D1222 == <<"2", "0", "2", "4", "1", "2", "2", "2">>
D1223 == <<"2", "0", "2", "4", "1", "2", "2", "3">>
Dates == {D1222, D1223}

basketball == <<"b", "a", "s", "k", "e", "t", "b", "a", "l", "l">>
soccer == <<"s", "o", "c", "c", "e", "r">>
Sports == {basketball, soccer}
volleyball == <<"v", "o", "l", "l", "e", "y", "b", "a", "l", "l">>
golf == <<"g", "o", "l", "f">>

\* the client classes, and what get_sport_name returns for an instance of each
ClientClasses == {"BasketballClient", "SoccerClient", "VolleyballClient"}
get_sport_name(client_class) ==
    IF client_class = "BasketballClient" THEN basketball
    ELSE IF client_class = "SoccerClient" THEN soccer
    ELSE volleyball

\* SportsClientFactory._registry as the class body sets it
INITIAL_REGISTRY ==
    [sport \in {basketball, soccer, volleyball} |->
        IF sport = basketball THEN "BasketballClient"
        ELSE IF sport = soccer THEN "SoccerClient"
        ELSE "VolleyballClient"]

\* game dictionaries: a missing key is a field outside the record's domain
G001 == [game_id |-> <<"G", "1">>, home_team_name |-> <<"A">>, away_team_name |-> <<"B">>]
G002 ==
  [game_id |-> <<"G", "2">>, home_team_name |-> <<" ", "C">>, away_team_name |-> <<"D">>,
   state |-> <<"B">>, home_team_id |-> <<"T", "1">>, away_team_id |-> <<"T", "2">>]
G001x == [game_id |-> <<"G", "1">>, home_team_name |-> <<"E">>, away_team_name |-> <<"B">>]
GNoTeams == [game_id |-> <<"G", "3">>]
\* the (date, sport) pairs the unit tests use
Coordinates == {<<D1222, basketball>>, <<D1223, basketball>>, <<D1223, soccer>>}
GBlankAway == [game_id |-> <<"G", "5">>, home_team_name |-> <<"A">>, away_team_name |-> <<" ", "\t">>]
Games == {G001, G002, G001x, GNoTeams, GBlankAway}

GameIds == {<<"G", "1">>, <<"G", "9">>}

\* every list of at most MaxLen games
GameLists == UNION {[1..n -> Games] : n \in 0..MaxLen}

\* the lists the unit tests pass: valid, mixed, all invalid, empty, and two
\* games sharing a game_id
SampleLists == {<<>>, <<G001, G001x>>, <<GNoTeams>>, <<GBlankAway, G002>>}

-----------------------------------------------------------------------------
(* cache.py: validation *)

REQUIRED_GAME_FIELDS == {"game_id", "home_team_name", "away_team_name"}

\* f"{date}_{sport}"
_make_key(date, sport) == date \o <<"_">> \o sport

_is_valid_game_no_strip(game) ==
    \A field \in REQUIRED_GAME_FIELDS :
        field \in DOMAIN game /\ game[field] # <<>>

\* `not value`: the key is missing or the string is empty; then the strip test
_is_valid_game(game) ==
    \A field \in REQUIRED_GAME_FIELDS :
        /\ field \in DOMAIN game
        /\ game[field] # <<>>
        /\ strip(game[field]) # <<>>

_validate_games_unfiltered(games) == games

_validate_games_any_valid(games) ==
    IF \E i \in 1..Len(games) : _is_valid_game(games[i]) THEN games ELSE <<>>

\* [g for g in games if _is_valid_game(g)]
_validate_games(games) == SelectSeq(games, _is_valid_game)

-----------------------------------------------------------------------------
(* cachetools.TTLCache(maxsize, ttl) as cache.py uses it.  The store keeps  *)
(* items (key -> value), expires (key -> expiry time) and links, the keys   *)
(* from least to most recently used.  Expired items stay in the store until *)
(* an operation purges them.                                                *)

EmptyCache ==
    [items |-> [k \in {} |-> <<>>], expires |-> [k \in {} |-> 0], links |-> <<>>]

Remove(seq, x) == SelectSeq(seq, LAMBDA y : y # x)

Restrict(f, S) == [k \in S |-> f[k]]

\* TTLCache.expire(time): drop every item with not (time < expires)
expire(c, time) ==
    LET live == {k \in DOMAIN c.items : time < c.expires[k]}
    IN  [items |-> Restrict(c.items, live),
         expires |-> Restrict(c.expires, live),
         links |-> SelectSeq(c.links, LAMBDA k : k \in live)]

\* delete key from the store
discard(c, key) ==
    [items |-> Restrict(c.items, DOMAIN c.items \ {key}),
     expires |-> Restrict(c.expires, DOMAIN c.expires \ {key}),
     links |-> Remove(c.links, key)]

popitem_most_recent(c, time) ==
    LET e == expire(c, time)
    IN  IF e.links = <<>> THEN e ELSE discard(e, e.links[Len(e.links)])

\* TTLCache.popitem(): purge, then remove the least recently used item
popitem(c, time) ==
    LET e == expire(c, time)
    IN  IF e.links = <<>> THEN e ELSE discard(e, Head(e.links))

RECURSIVE make_room(_, _, _)
make_room(c, time, maxsize) ==
    IF Cardinality(DOMAIN c.items) + 1 > maxsize /\ c.links # <<>>
    THEN make_room(popitem(c, time), time, maxsize)
    ELSE c

TTLCache_setitem_no_evict(c, key, value, time, maxsize, ttl) ==
    LET e == expire(c, time)
    IN  [items |-> [k \in DOMAIN e.items \cup {key} |->
                        IF k = key THEN value ELSE e.items[k]],
         expires |-> [k \in DOMAIN e.items \cup {key} |->
                        IF k = key THEN time + ttl ELSE e.expires[k]],
         links |-> Append(Remove(e.links, key), key)]

\* TTLCache.__setitem__: purge, evict least recently used items while the
\* store is full and the key is new, store, stamp time + ttl, mark as most
\* recently used
TTLCache_setitem(c, key, value, time, maxsize, ttl) ==
    LET e == expire(c, time)
        r == IF key \in DOMAIN e.items THEN e ELSE make_room(e, time, maxsize)
    IN  [items |-> [k \in DOMAIN r.items \cup {key} |->
                        IF k = key THEN value ELSE r.items[k]],
         expires |-> [k \in DOMAIN r.items \cup {key} |->
                        IF k = key THEN time + ttl ELSE r.expires[k]],
         links |-> Append(Remove(r.links, key), key)]

TTLCache_contains_ignoring_ttl(c, key, time) == key \in DOMAIN c.items

\* TTLCache.__contains__: stored and not expired; no reordering
TTLCache_contains(c, key, time) ==
    key \in DOMAIN c.items /\ time < c.expires[key]

\* value of TTLCache.get(key): None for a missing or expired key
TTLCache_get(c, key, time) ==
    IF key \in DOMAIN c.items /\ time < c.expires[key]
    THEN Some(c.items[key])
    ELSE None

TTLCache_touch_refresh(c, key) ==
    IF key \in DOMAIN c.items /\ now < c.expires[key]
    THEN [c EXCEPT !.links = Append(Remove(c.links, key), key),
                   !.expires[key] = IF now < @ THEN now + Ttl ELSE @]
    ELSE c

\* store after TTLCache.get(key): "key in self" first, then __getitem__ makes
\* an unexpired key the most recently used
TTLCache_touch(c, key) ==
    IF key \in DOMAIN c.items /\ now < c.expires[key]
    THEN [c EXCEPT !.links = Append(Remove(c.links, key), key)]
    ELSE c

\* TTLCache.__delitem__
TTLCache_delitem(c, key) == discard(c, key)

\* TTLCache.__len__: purge, then count
TTLCache_len(c, time) == Cardinality(DOMAIN expire(c, time).items)

\* MutableMapping.clear(): popitem() until the store is empty
RECURSIVE TTLCache_clear(_, _)
TTLCache_clear(c, time) ==
    LET e == expire(c, time)
    IN  IF e.links = <<>> THEN e ELSE TTLCache_clear(popitem(e, time), time)

-----------------------------------------------------------------------------
(* cache.py: the cache API.  Each action is one call; ret' records the     *)
(* call and what it returned.                                               *)

\* a call record: the name comes first, so that records of different calls
\* differ before their values are compared
Returned(op, args, val) == <<op, args, val>>
Op(r) == r[1]
Args(r) == r[2]
Val(r) == r[3]

Never == 0 - 1

\* what get_cached_games(date, sport) returns in the current state
cached(date, sport) == TTLCache_get(game_list_cache, _make_key(date, sport), now)

cache_games(date, sport, games) ==
    LET valid_games == _validate_games(games)
    IN  /\ IF games = <<>> \/ valid_games = <<>>
           THEN /\ game_list_cache' = game_list_cache
                /\ ret' = Returned("cache_games", <<date, sport, games>>, FALSE)
           ELSE /\ game_list_cache' =
                       TTLCache_setitem(game_list_cache, _make_key(date, sport),
                                        valid_games, now, MaxSize, Ttl)
                /\ ret' = Returned("cache_games", <<date, sport, games>>, TRUE)
        /\ UNCHANGED <<now, CONFIG, requests, pending>>

get_cached_games(date, sport) ==
    /\ ret' = Returned("get_cached_games", <<date, sport>>, cached(date, sport))
    /\ game_list_cache' = TTLCache_touch(game_list_cache, _make_key(date, sport))
    /\ UNCHANGED <<now, CONFIG, requests, pending>>

invalidate_cache(date, sport) ==
    LET key == _make_key(date, sport)
    IN  /\ IF TTLCache_contains(game_list_cache, key, now)
           THEN /\ game_list_cache' = TTLCache_delitem(game_list_cache, key)
                /\ ret' = Returned("invalidate_cache", <<date, sport>>, TRUE)
           ELSE /\ game_list_cache' = game_list_cache
                /\ ret' = Returned("invalidate_cache", <<date, sport>>, FALSE)
        /\ UNCHANGED <<now, CONFIG, requests, pending>>

first_with_id_last(games, game_id) ==
    LET hits == {i \in 1..Len(games) :
                    "game_id" \in DOMAIN games[i] /\ games[i].game_id = game_id}
    IN  IF hits = {} THEN None
        ELSE Some(games[CHOOSE i \in hits : \A j \in hits : j <= i])

\* the scan of find_game_in_cache: first game whose game_id equals game_id
RECURSIVE first_with_id(_, _)
first_with_id(games, game_id) ==
    IF games = <<>> THEN None
    ELSE IF "game_id" \in DOMAIN Head(games) /\ Head(games).game_id = game_id
         THEN Some(Head(games))
         ELSE first_with_id(Tail(games), game_id)

find_game_in_cache_value(date, sport, game_id) ==
    LET games == cached(date, sport)
    IN  IF games # None /\ games.val # <<>>
        THEN first_with_id(games.val, game_id)
        ELSE None

find_game_in_cache(date, sport, game_id) ==
    /\ ret' = Returned("find_game_in_cache", <<date, sport, game_id>>,
                       find_game_in_cache_value(date, sport, game_id))
    /\ game_list_cache' = TTLCache_touch(game_list_cache, _make_key(date, sport))
    /\ UNCHANGED <<now, CONFIG, requests, pending>>

clear_cache ==
    /\ game_list_cache' = TTLCache_clear(game_list_cache, now)
    /\ ret' = Returned("clear_cache", <<>>, None)
    /\ UNCHANGED <<now, CONFIG, requests, pending>>

get_cache_info_value ==
    [current_size |-> TTLCache_len(game_list_cache, now),
     max_size |-> MaxSize,
     ttl |-> Ttl]

get_cache_info ==
    /\ ret' = Returned("get_cache_info", <<>>, get_cache_info_value)
    /\ game_list_cache' = expire(game_list_cache, now)
    /\ UNCHANGED <<now, CONFIG, requests, pending>>

\* the TTLCache timer advances
Tick ==
    /\ now < MaxTime
    /\ now' = now + 1
    /\ ret' = Returned("tick", <<>>, None)
    /\ UNCHANGED <<game_list_cache, CONFIG, requests, pending>>

\* the client addresses the rate limiter tells apart, and its empty record
unknown == <<"unknown">>
ClientIps == {<<"a">>, <<"b">>, unknown}
NoRequests == [ip \in ClientIps |-> <<>>]

-----------------------------------------------------------------------------
(* The cache API called directly, as the unit tests do *)

InitCache ==
    /\ game_list_cache = EmptyCache
    /\ now = 0
    /\ ret = Returned("init", <<>>, None)
    /\ admitted_at = [c \in Dates \X Sports |-> Never]
    /\ CONFIG = [use_mock_sports_data |-> TRUE, has_sports_api |-> FALSE]
    /\ requests = <<>>
    /\ pending = <<>>
    /\ _registry = INITIAL_REGISTRY
    /\ clients = {}
    /\ _requests = NoRequests
    /\ passed_on = NoRequests

\* the history variable is kept only where a property reads it; the cache
\* API, the handlers and the clients leave the factory's registry and the
\* rate limiter alone
NoStamp == UNCHANGED <<admitted_at, _registry, clients, _requests, passed_on>>

\* record the time of a successful admission
Stamp ==
    /\ admitted_at' =
          IF Op(ret') = "cache_games" /\ Val(ret')
          THEN [admitted_at EXCEPT ![<<Args(ret')[1], Args(ret')[2]>>] = now]
          ELSE admitted_at
    /\ UNCHANGED <<_registry, clients, _requests, passed_on>>

\* every operation, three keys, the sample lists
NextCache ==
    \/ \E c \in Coordinates, games \in SampleLists :
            cache_games(c[1], c[2], games) /\ NoStamp
    \/ \E c \in Coordinates : get_cached_games(c[1], c[2]) /\ NoStamp
    \/ \E c \in Coordinates : invalidate_cache(c[1], c[2]) /\ NoStamp
    \/ \E c \in Coordinates, game_id \in GameIds :
            find_game_in_cache(c[1], c[2], game_id) /\ NoStamp
    \/ clear_cache /\ NoStamp
    \/ get_cache_info /\ NoStamp
    \/ Tick /\ NoStamp

SpecCache == InitCache /\ [][NextCache]_vars

\* admission of every list of at most MaxLen games, one key
NextAdmission ==
    \/ \E games \in GameLists : cache_games(D1222, basketball, games) /\ NoStamp
    \/ get_cached_games(D1222, basketball) /\ NoStamp
    \/ invalidate_cache(D1222, basketball) /\ NoStamp
    \/ clear_cache /\ NoStamp
    \/ Tick /\ NoStamp

SpecAdmission == InitCache /\ [][NextAdmission]_vars

\* lifetimes: every operation with the admission times recorded
TtlLists == {<<G001>>, <<GNoTeams>>}

NextTtl ==
    \/ \E c \in Coordinates, games \in TtlLists :
            cache_games(c[1], c[2], games) /\ Stamp
    \/ \E c \in Coordinates : get_cached_games(c[1], c[2]) /\ Stamp
    \/ \E c \in Coordinates : invalidate_cache(c[1], c[2]) /\ Stamp
    \/ \E c \in Coordinates, game_id \in GameIds :
            find_game_in_cache(c[1], c[2], game_id) /\ Stamp
    \/ clear_cache /\ Stamp
    \/ get_cache_info /\ Stamp
    \/ Tick /\ Stamp

SpecTtl == InitCache /\ [][NextTtl]_vars

-----------------------------------------------------------------------------
(* Properties of the cache *)

\* a string with a character that is not whitespace
NonBlank(v) == \E i \in 1..Len(v) : v[i] \notin Whitespace

\* game_id, home_team_name and away_team_name present and non-blank
HasRequired(game) ==
    /\ {"game_id", "home_team_name", "away_team_name"} \subseteq DOMAIN game
    /\ NonBlank(game.game_id)
    /\ NonBlank(game.home_team_name)
    /\ NonBlank(game.away_team_name)

\* the games of a list that have the required fields, in input order
Admissible(games) == SelectSeq(games, HasRequired)

\* the last call was op
Called(op) == Op(ret) = op

\* the last call was op(args) and returned val
Was(op, args, val) == Op(ret) = op /\ Args(ret) = args /\ Val(ret) = val

\* what get_cached_games(date, sport) returns in the state after a step
cached_after(date, sport) ==
    TTLCache_get(game_list_cache', _make_key(date, sport), now')

\* C1 as stated: cache_games returns True iff some game has the three
\* required fields non-blank; right after it get_cached_games of the same key
\* returns the admissible games in input order if it returned True, and None
\* if it returned False.
C1_AdmissionOrNone ==
    Called("cache_games") =>
        /\ Val(ret) = (Admissible(Args(ret)[3]) # <<>>)
        /\ cached(Args(ret)[1], Args(ret)[2]) =
               IF Val(ret) THEN Some(Admissible(Args(ret)[3])) ELSE None

\* C1 amended: cache_games returns True iff some game has the three required
\* fields non-blank; right after it get_cached_games of the same key returns
\* the admissible games in input order if it returned True, and what it
\* returned before the call (None only if no unexpired entry was present) if
\* it returned False.
C1_AdmissionOrPrevious ==
    [][Called("cache_games")' =>
          /\ Val(ret') = (Admissible(Args(ret')[3]) # <<>>)
          /\ cached_after(Args(ret')[1], Args(ret')[2]) =
                 IF Val(ret') THEN Some(Admissible(Args(ret')[3]))
                 ELSE cached(Args(ret')[1], Args(ret')[2])]_vars

\* C1 witness: a mixed batch was admitted and the key holds its one valid game
C1_Witness ==
    /\ Was("cache_games", <<D1222, basketball, <<GBlankAway, G002>>>>, TRUE)
    /\ cached(D1222, basketball) = Some(<<G002>>)

\* C2: every stored entry, expired or not, is a non-empty list of games that
\* have the three required fields non-blank, and get_cached_games never
\* returns the empty list.
C2_OnlyValidatedEntries ==
    /\ \A key \in DOMAIN game_list_cache.items :
          /\ game_list_cache.items[key] # <<>>
          /\ \A i \in 1..Len(game_list_cache.items[key]) :
                HasRequired(game_list_cache.items[key][i])
    /\ \A c \in Coordinates : cached(c[1], c[2]) # Some(<<>>)
    /\ Called("get_cached_games") => Val(ret) # Some(<<>>)

\* C2 witness: the cache is full after a mixed batch was admitted at the last tick
C2_Witness ==
    /\ Called("cache_games") /\ Val(ret) /\ Args(ret)[3] = <<GBlankAway, G002>>
    /\ Cardinality(DOMAIN game_list_cache.items) = MaxSize
    /\ now = MaxTime

\* C3 as stated: a batch with at least one invalid game is rejected whole:
\* cache_games returns False and the key holds nothing of it.
C3_InvalidBatchRejected ==
    (Called("cache_games") /\ Admissible(Args(ret)[3]) # Args(ret)[3]) =>
        /\ Val(ret) = FALSE
        /\ cached(Args(ret)[1], Args(ret)[2]) # Some(Admissible(Args(ret)[3]))

\* C3 amended: a batch with at least one invalid game is admitted without its
\* invalid games when at least one game is valid (True, the key then holds
\* exactly the valid games in input order); it is rejected atomically (False,
\* the cache unchanged) only when no game of it is valid.
C3_InvalidGamesFiltered ==
    [][(Called("cache_games")' /\ Admissible(Args(ret')[3]) # Args(ret')[3]) =>
          IF Admissible(Args(ret')[3]) # <<>>
          THEN /\ Val(ret') = TRUE
               /\ cached_after(Args(ret')[1], Args(ret')[2]) = Some(Admissible(Args(ret')[3]))
          ELSE /\ Val(ret') = FALSE
               /\ game_list_cache' = game_list_cache]_vars

\* C3 witness: the valid game of a batch led by an invalid one is cached, and
\* a later all-invalid batch was rejected without touching it
C3_Witness ==
    /\ Was("cache_games", <<D1222, basketball, <<GNoTeams, GBlankAway>>>>, FALSE)
    /\ cached(D1222, basketball) = Some(<<G001x>>)

\* the unexpired part of the store: what any later call can observe
LiveView(c, time) == expire(c, time)

\* number of keys for which get_cached_games returns a list
LiveCount == Cardinality({c \in Coordinates : cached(c[1], c[2]) # None})

\* C4 as stated: cache_games(d, s, .) and invalidate_cache(d, s) leave what
\* get_cached_games returns for every other (d', s') as it was.
C4_OtherKeysUntouched ==
    [][(Called("cache_games")' \/ Called("invalidate_cache")') =>
          \A c \in Coordinates :
              c # <<Args(ret')[1], Args(ret')[2]>> =>
                  cached_after(c[1], c[2]) = cached(c[1], c[2])]_vars

\* C4 amended: invalidate_cache(d, s) leaves what get_cached_games returns
\* for every other (d', s') as it was, and so does cache_games(d, s, .),
\* except that admitting a key that has no unexpired entry while max_size
\* unexpired entries are present evicts the least recently used of them:
\* that one key reads None afterwards and all others read as before.
C4_OtherKeysUntouchedButEvicted ==
    [][(Called("cache_games")' \/ Called("invalidate_cache")') =>
          LET d == Args(ret')[1]
              s == Args(ret')[2]
              live == LiveView(game_list_cache, now)
              evicts == /\ Called("cache_games")'
                        /\ Val(ret')
                        /\ cached(d, s) = None
                        /\ LiveCount = MaxSize
          IN  \A c \in Coordinates :
                  c # <<d, s>> =>
                      cached_after(c[1], c[2]) =
                          IF evicts /\ _make_key(c[1], c[2]) = Head(live.links)
                          THEN None
                          ELSE cached(c[1], c[2])]_vars

\* C4 witness: a third key was admitted into a full cache; the most recently
\* read key survived and the other was evicted
C4_Witness ==
    /\ Was("cache_games", <<D1223, soccer, <<G001, G001x>>>>, TRUE)
    /\ cached(D1222, basketball) = Some(<<G002>>)
    /\ cached(D1223, basketball) = None
    /\ game_list_cache.links =
           <<_make_key(D1222, basketball), _make_key(D1223, soccer)>>

\* C5: invalidate_cache(d, s) returns True iff an unexpired entry of (d, s)
\* was present, a False call leaves the cache unchanged, after
\* invalidate_cache(d, s) the key reads None and after clear_cache every key
\* does; a key that reads None reads a list again only by a cache_games call
\* on that key that returned True.
C5_InvalidateThenMiss ==
    [][/\ Called("invalidate_cache")' =>
             /\ Val(ret') = (cached(Args(ret')[1], Args(ret')[2]) # None)
             /\ Val(ret') = FALSE => game_list_cache' = game_list_cache
             /\ cached_after(Args(ret')[1], Args(ret')[2]) = None
       /\ Called("clear_cache")' =>
             \A c \in Coordinates : cached_after(c[1], c[2]) = None
       /\ \A c \in Coordinates :
             (cached(c[1], c[2]) = None /\ cached_after(c[1], c[2]) # None) =>
                 /\ Called("cache_games")' /\ Val(ret')
                 /\ c = <<Args(ret')[1], Args(ret')[2]>>]_vars

\* C5 witness: an entry was invalidated while another key stays cached
C5_Witness ==
    /\ Was("invalidate_cache", <<D1222, basketball>>, TRUE)
    /\ cached(D1222, basketball) = None
    /\ cached(D1223, soccer) # None

\* C6: get_cached_games returns a list for a key only if cache_games admitted
\* that key less than the TTL ago, whatever was read in between; from the
\* TTL on it returns None.
C6_NoStaleEntry ==
    /\ \A c \in Coordinates :
          cached(c[1], c[2]) # None =>
              admitted_at[c] # Never /\ now - admitted_at[c] < Ttl
    /\ (Called("get_cached_games") /\ Val(ret) # None) =>
          /\ admitted_at[<<Args(ret)[1], Args(ret)[2]>>] # Never
          /\ now - admitted_at[<<Args(ret)[1], Args(ret)[2]>>] < Ttl

\* C6 witness: an entry that was read before its TTL is read again exactly
\* one TTL after its admission and is gone, though still in the store
C6_Witness ==
    /\ Was("get_cached_games", <<D1222, basketball>>, None)
    /\ admitted_at[<<D1222, basketball>>] = now - Ttl
    /\ _make_key(D1222, basketball) \in DOMAIN game_list_cache.items
    /\ game_list_cache.links =
           <<_make_key(D1223, basketball), _make_key(D1222, basketball)>>
    /\ cached(D1223, basketball) # None

\* C7: current_size of get_cache_info is the number of keys for which
\* get_cached_games returns a list and never exceeds max_size; max_size and
\* ttl are the configured values; get_cache_info leaves the unexpired part of
\* the cache (entries, expiry times, order of use) as it was.
C7_SizeWithinMax ==
    /\ [](/\ LiveCount <= MaxSize
          /\ get_cache_info_value =
                 [current_size |-> LiveCount, max_size |-> MaxSize, ttl |-> Ttl]
          /\ Called("get_cache_info") => Val(ret) = get_cache_info_value)
    /\ [][Called("get_cache_info")' =>
              /\ LiveView(game_list_cache', now') = LiveView(game_list_cache, now)
              /\ \A c \in Coordinates :
                    cached_after(c[1], c[2]) = cached(c[1], c[2])]_vars

\* C7 witness: get_cache_info reported a full cache after time has passed
C7_Witness ==
    /\ Called("get_cache_info")
    /\ Val(ret).current_size = MaxSize
    /\ now = MaxTime

\* the first game of the list cached for (date, sport) with this game_id
FirstMatch(date, sport, game_id) ==
    LET entry == cached(date, sport)
        hits == {i \in 1..Len(entry.val) :
                    "game_id" \in DOMAIN entry.val[i] /\ entry.val[i].game_id = game_id}
    IN  IF entry = None \/ hits = {} THEN None
        ELSE Some(entry.val[CHOOSE i \in hits : \A j \in hits : i <= j])

\* C8 as stated: find_game_in_cache returns the first cached game of the key
\* with that game_id, None when the key is absent or expired or no game has
\* the id, and leaves the cache as it was.
C8_FindLeavesCacheAlone ==
    [][Called("find_game_in_cache")' =>
          /\ Val(ret') = FirstMatch(Args(ret')[1], Args(ret')[2], Args(ret')[3])
          /\ LiveView(game_list_cache', now') = LiveView(game_list_cache, now)]_vars

\* C8 amended: find_game_in_cache returns the first cached game of the key
\* with that game_id, None when the key is absent or expired or no game has
\* the id; it changes no entry and no expiry time (get_cached_games returns
\* for every key what it returned before), but it marks the key, when it
\* holds an unexpired entry, as the most recently used, so that a later
\* eviction spares it.
C8_FindOnlyMarksUse ==
    [][Called("find_game_in_cache")' =>
          LET key == _make_key(Args(ret')[1], Args(ret')[2])
          IN  /\ Val(ret') = FirstMatch(Args(ret')[1], Args(ret')[2], Args(ret')[3])
              /\ game_list_cache'.items = game_list_cache.items
              /\ game_list_cache'.expires = game_list_cache.expires
              /\ \A c \in Coordinates :
                    cached_after(c[1], c[2]) = cached(c[1], c[2])
              /\ game_list_cache'.links =
                     IF cached(Args(ret')[1], Args(ret')[2]) # None
                     THEN Append(SelectSeq(game_list_cache.links,
                                           LAMBDA k : k # key), key)
                     ELSE game_list_cache.links]_vars

\* C8 witness: of two cached games with the same game_id the first was
\* returned, and the key moved behind the other key in the order of use
C8_Witness ==
    /\ Was("find_game_in_cache", <<D1222, basketball, <<"G", "1">>>>,
                      Some(G001))
    /\ cached(D1222, basketball) = Some(<<G001, G001x>>)
    /\ game_list_cache.links =
           <<_make_key(D1223, soccer), _make_key(D1222, basketball)>>

-----------------------------------------------------------------------------
(* Configuration, the client factory and the clients' mode *)

ConfigValues == [use_mock_sports_data : BOOLEAN, has_sports_api : BOOLEAN]

BaseSportsClient_init_no_fallback(config) == config.use_mock_sports_data

\* BaseSportsClient.__init__: the value left in self.use_mock
BaseSportsClient_init(config) ==
    IF config.use_mock_sports_data THEN TRUE
    ELSE IF config.has_sports_api THEN FALSE
    ELSE TRUE

\* SportsClientFactory.create_client: None stands for the ValueError raised
\* for a sport outside the registry
create_client(sport) ==
    IF sport \in DOMAIN _registry
    THEN Some([sport |-> get_sport_name(_registry[sport]),
               use_mock |-> BaseSportsClient_init(CONFIG)])
    ELSE None

\* the operations of each sport's endpoint table
ENDPOINTS(sport) ==
    IF sport = basketball
    THEN {"team_stats", "player_stats", "lineup", "team_rank", "team_vs_list"}
    ELSE IF sport = soccer
    THEN {"team_stats", "player_stats", "player_season_stats", "lineup",
          "team_rank", "team_vs_list"}
    ELSE IF sport = volleyball
    THEN {"team_stats", "player_stats"}
    ELSE {}

use_common == {"games"}

has_operation(sport, operation) ==
    operation \in ENDPOINTS(sport) \/ operation \in use_common

\* the upstream operations a live client requests for one method call, in
\* order, when every response is usable
live_requests(sport, method) ==
    IF method = "get_games_by_sport" THEN <<"games">>
    ELSE IF method = "get_team_stats" THEN <<"team_stats">>
    ELSE IF method = "get_player_stats"
    THEN IF sport = basketball
         THEN <<"team_stats", "player_stats", "player_stats">>
         ELSE <<"player_stats">>
    ELSE IF method = "get_lineup" THEN <<"lineup">>
    ELSE IF method = "get_player_season_stats" THEN <<"player_season_stats">>
    ELSE IF method = "get_team_rank" THEN <<"team_rank">>
    ELSE IF method = "get_team_vs_list"
    THEN IF sport = basketball THEN <<"team_vs_list">> ELSE <<>>
    ELSE <<>>

Methods ==
    {"get_games_by_sport", "get_team_stats", "get_player_stats", "get_lineup",
     "get_team_rank", "get_team_vs_list"}

\* the soccer client has one method more
methods_of(sport) ==
    IF sport = soccer THEN Methods \cup {"get_player_season_stats"} ELSE Methods

\* APIErrorCode values _make_request raises
ErrorCodes == {"TIMEOUT", "NOT_FOUND", "SERVER_ERROR", "CONNECTION_ERROR", "UNKNOWN"}

\* str.isdigit: true of decimal digits and of other digit characters such as
\* the superscript two, written "sup2" here
DigitChars == {"0", "1", "2", "3", "4", "5", "6", "7", "8", "9", "sup2"}

isdigit(s) == s # <<>> /\ \A i \in 1..Len(s) : s[i] \in DigitChars

\* the date check at the head of get_games_by_sport
valid_date(date) == Len(date) = 8 /\ isdigit(date)

\* what a handler or a client method hands back: a list of games, a payload,
\* or the exception it raised
Response(kind, games, error) == [kind |-> kind, games |-> games, error |-> error]
Raised(error) == Response("raised", <<>>, error)

-----------------------------------------------------------------------------
(* The static datasets of mock mode *)

D1118 == <<"2", "0", "2", "5", "1", "1", "1", "8">>
DBad == <<"2", "0", "2", "4">>

MockFinished ==
  [game_id |-> <<"M", "1">>, home_team_name |-> <<"H">>, away_team_name |-> <<"W">>,
   state |-> <<"f">>]
MockScheduled ==
  [game_id |-> <<"M", "2">>, home_team_name |-> <<"H">>, away_team_name |-> <<"V">>,
   state |-> <<"b">>]

\* the basketball datasets: one date, a finished and a scheduled game, and
\* statistics for the finished one
MOCK_BASKETBALL_GAMES ==
    [k \in {_make_key(D1118, basketball)} |-> <<MockFinished, MockScheduled>>]
MOCK_BASKETBALL_TEAM_STATS == {<<"M", "1">>}
MOCK_BASKETBALL_PLAYER_STATS == {<<"M", "1">>}

\* the soccer datasets are empty
MOCK_SOCCER_GAMES == [k \in {} |-> <<>>]
MOCK_SOCCER_TEAM_STATS == {}
MOCK_SOCCER_PLAYER_STATS == {}

\* dict.get(key, [])
get_or_empty(dataset, key) == IF key \in DOMAIN dataset THEN dataset[key] ELSE <<>>

\* the games dataset _get_game_info scans for a sport
mock_games(sport) ==
    IF sport = basketball THEN MOCK_BASKETBALL_GAMES
    ELSE IF sport = soccer THEN MOCK_SOCCER_GAMES
    ELSE [k \in {} |-> <<>>]

\* the scan of _get_game_info over every list of the dataset
RECURSIVE scan_mock_games(_, _, _)
scan_mock_games(dataset, keys, game_id) ==
    IF keys = {} THEN None
    ELSE LET k == CHOOSE x \in keys : TRUE
             hit == first_with_id(dataset[k], game_id)
         IN  IF hit # None THEN hit
             ELSE scan_mock_games(dataset, keys \ {k}, game_id)

\* what a client in mock mode answers: a function of the sport, the method and
\* its argument alone
mock_answer(sport, method, key) ==
    IF method = "get_games_by_sport"
    THEN IF valid_date(key)
         THEN Response("games", get_or_empty(mock_games(sport), _make_key(key, sport)), "")
         ELSE Raised("ValueError")
    ELSE IF method = "get_team_stats"
    THEN IF key \in (IF sport = basketball THEN MOCK_BASKETBALL_TEAM_STATS
                     ELSE MOCK_SOCCER_TEAM_STATS)
         THEN Response("data", <<>>, "")
         ELSE Raised("ValueError")
    ELSE IF method = "get_player_stats"
    THEN IF key \in (IF sport = basketball THEN MOCK_BASKETBALL_PLAYER_STATS
                     ELSE MOCK_SOCCER_PLAYER_STATS)
         THEN Response("data", <<>>, "")
         ELSE Raised("ValueError")
    ELSE IF method = "get_team_rank" /\ sport = soccer
    THEN Response("games", <<>>, "")
    ELSE IF method = "get_team_vs_list"
    THEN Response("none", <<>>, "")
    ELSE Raised("ValueError")

-----------------------------------------------------------------------------
(* Upstream: the requests a call has issued and the responses it may get *)

\* lists the mapper may hand back for a games response
UpstreamLists == {<<>>, <<G002, G001>>, <<GNoTeams>>, <<G001x, GNoTeams>>}

\* a response: "ok" with the mapped games, "ok" rows that carry no team ids,
\* an "empty" mapped result, or the APIError code _make_request raises
Outcome(status, games) == [status |-> status, games |-> games]

Outcomes(operation) ==
    IF operation = "games"
    THEN {Outcome("ok", games) : games \in UpstreamLists}
            \cup {Outcome(code, <<>>) : code \in ErrorCodes}
    ELSE {Outcome(status, <<>>) : status \in {"ok", "ok_no_ids", "empty"} \cup ErrorCodes}

\* one GET, as _make_request sends it
Request(sport, item) == [sport |-> sport, operation |-> item.operation, key |-> item.key]

\* the GETs of one client method call, tagged with the call they belong to
call_requests(sport, method, tag, key) ==
    [i \in 1..Len(live_requests(sport, method)) |->
        [method |-> tag, operation |-> live_requests(sport, method)[i], key |-> key]]

\* an empty mapped result makes the client raise ValueError, except where the
\* method returns it
empty_is_error(sport, operation) ==
    /\ operation # "games"
    /\ operation # "team_vs_list"
    /\ ~(operation = "team_rank" /\ sport = soccer)

\* the response lets the method that asked go on
usable(sport, item, outcome) ==
    \/ outcome.status = "ok"
    \/ outcome.status = "ok_no_ids"
          /\ ~(item.method = "get_player_stats" /\ item.operation = "team_stats")
    \/ outcome.status = "empty" /\ ~empty_is_error(sport, item.operation)

\* the exception a failed request surfaces as
error_of(outcome) ==
    IF outcome.status \in ErrorCodes THEN outcome.status ELSE "ValueError"

\* a suspended call: its arguments, what it has learnt, the GETs still to come
\* (the first of them in flight)
Call(name, sport, date, game_id, force_refresh) ==
    [call |-> name, sport |-> sport, date |-> date, game_id |-> game_id,
     force_refresh |-> force_refresh, info |-> None,
     home_team_id |-> <<>>, away_team_id |-> <<>>, todo |-> <<>>]

ArgsOf(p) ==
    IF p.call = "get_games_by_sport_handler"
    THEN <<p.date, p.sport, p.force_refresh>>
    ELSE IF p.call = "get_game_details_handler"
    THEN <<p.game_id, p.sport, p.date>>
    ELSE <<p.sport, p.game_id>>

RemoveAt(seq, i) == SubSeq(seq, 1, i - 1) \o SubSeq(seq, i + 1, Len(seq))

\* a call that has just begun either returns val or sends its first GET and
\* is suspended
Begin(p, store, todo, val) ==
    /\ game_list_cache' = store
    /\ IF todo = <<>>
       THEN /\ pending' = pending
            /\ requests' = <<>>
            /\ ret' = Returned(p.call, ArgsOf(p), val)
       ELSE /\ pending' = Append(pending, [p EXCEPT !.todo = todo])
            /\ requests' = <<Request(p.sport, Head(todo))>>
            /\ ret' = Returned("await", <<>>, None)
    /\ UNCHANGED <<now, CONFIG>>

\* the i-th suspended call either returns val or sends its next GET
Resume(i, p, store, todo, val) ==
    /\ game_list_cache' = store
    /\ IF todo = <<>>
       THEN /\ pending' = RemoveAt(pending, i)
            /\ requests' = requests
            /\ ret' = Returned(p.call, ArgsOf(p), val)
       ELSE /\ pending' = [pending EXCEPT ![i] = [p EXCEPT !.todo = todo]]
            /\ requests' = Append(requests, Request(p.sport, Head(todo)))
            /\ ret' = Returned("await", <<>>, None)
    /\ UNCHANGED <<now, CONFIG>>

-----------------------------------------------------------------------------
(* get_games_by_sport_handler *)

cache_games_effect_never(c, date, sport, games) == c

cache_games_effect_merge(c, date, sport, games) ==
    IF games = <<>> \/ _validate_games(games) = <<>>
    THEN c
    ELSE TTLCache_setitem(c, _make_key(date, sport),
                          (IF _make_key(date, sport) \in DOMAIN c.items
                           THEN c.items[_make_key(date, sport)] ELSE <<>>)
                              \o _validate_games(games),
                          now, MaxSize, Ttl)

\* the store after cache_games(date, sport, games)
cache_games_effect(c, date, sport, games) ==
    IF games = <<>> \/ _validate_games(games) = <<>>
    THEN c
    ELSE TTLCache_setitem(c, _make_key(date, sport), _validate_games(games),
                          now, MaxSize, Ttl)

invalidate_cache_effect_keep(c, date, sport) == c

\* the store after invalidate_cache(date, sport)
invalidate_cache_effect(c, date, sport) ==
    IF TTLCache_contains(c, _make_key(date, sport), now)
    THEN TTLCache_delitem(c, _make_key(date, sport))
    ELSE c

consults_cache_always(client) == TRUE

\* "if not client.use_mock": the handlers go to the cache in live mode only
consults_cache(client) == ~client.use_mock

\* the text the handler returns for a list of games
games_response(games) ==
    IF games = <<>> THEN Response("no_games", <<>>, "") ELSE Response("games", games, "")

\* the handler up to its await: the whole call in mock mode, on a cache hit
\* and on a bad date
get_games_by_sport_handler(date, sport, force_refresh) ==
    /\ LET p == Call("get_games_by_sport_handler", sport, date, <<>>, force_refresh)
           client == create_client(sport)
       IN  IF client = None
           THEN Begin(p, game_list_cache, <<>>, Raised("ValueError"))
           ELSE LET key == _make_key(date, sport)
                    hit == IF consults_cache(client.val) /\ ~force_refresh
                           THEN cached(date, sport) ELSE None
                    store == IF ~consults_cache(client.val) THEN game_list_cache
                             ELSE IF force_refresh
                             THEN invalidate_cache_effect(game_list_cache, date, sport)
                             ELSE TTLCache_touch(game_list_cache, key)
                IN  IF hit # None /\ hit.val # <<>>
                    THEN Begin(p, store, <<>>, Response("games", hit.val, ""))
                    ELSE IF ~valid_date(date)
                    THEN Begin(p, store, <<>>, Raised("ValueError"))
                    ELSE IF client.val.use_mock
                    THEN LET games == mock_answer(sport, "get_games_by_sport", date).games
                         IN  Begin(p,
                                   IF consults_cache(client.val) /\ games # <<>>
                                   THEN cache_games_effect(store, date, sport, games)
                                   ELSE store,
                                   <<>>, games_response(games))
                    ELSE Begin(p, store,
                               call_requests(sport, "get_games_by_sport",
                                             "get_games_by_sport", date),
                               None)

\* the handler after its await
games_handler_resume(i, outcome) ==
    LET p == pending[i]
        client == create_client(p.sport).val
    IN  IF outcome.status # "ok"
        THEN Resume(i, p, game_list_cache, <<>>, Raised(error_of(outcome)))
        ELSE Resume(i, p,
                    IF consults_cache(client) /\ outcome.games # <<>>
                    THEN cache_games_effect(game_list_cache, p.date, p.sport, outcome.games)
                    ELSE game_list_cache,
                    <<>>, games_response(outcome.games))

-----------------------------------------------------------------------------
(* get_game_details_handler *)

\* dict.get(field, "")
get_or_blank(game, field) == IF field \in DOMAIN game THEN game[field] ELSE <<>>

\* str.upper on the letters of the state codes
upper(s) ==
    [i \in 1..Len(s) |->
        IF s[i] = "b" THEN "B" ELSE IF s[i] = "f" THEN "F"
        ELSE IF s[i] = "i" THEN "I" ELSE s[i]]

\* _extract_basic_info: the status shown for a game, "finished" when the game
\* is unknown or its state code is
status_of(info) ==
    IF info = None THEN "finished"
    ELSE LET state_raw == upper(get_or_blank(info.val, "state"))
         IN  IF state_raw = <<"B">> THEN "scheduled"
             ELSE IF state_raw = <<"I">> THEN "live"
             ELSE "finished"

\* the GETs of _get_lineup_data for one team
lineup_requests(sport, game_id, team_id, tag) ==
    IF has_operation(sport, "lineup") /\ team_id # <<>>
    THEN call_requests(sport, "get_lineup", tag, game_id)
    ELSE <<>>

\* the GETs of _get_standings_data
standings_requests(sport, game_id) ==
    IF has_operation(sport, "team_rank")
    THEN call_requests(sport, "get_team_rank", "get_team_rank", game_id)
    ELSE <<>>

\* the GETs of _get_team_vs_data
team_vs_requests(sport, game_id) ==
    IF has_operation(sport, "team_vs_list")
    THEN call_requests(sport, "get_team_vs_list", "get_team_vs_list", game_id)
    ELSE <<>>

\* _build_scheduled_game_response: standings, comparison, the two lineups
scheduled_requests(p) ==
    standings_requests(p.sport, p.game_id)
        \o team_vs_requests(p.sport, p.game_id)
        \o lineup_requests(p.sport, p.game_id, p.home_team_id, "get_lineup.home")
        \o lineup_requests(p.sport, p.game_id, p.away_team_id, "get_lineup.away")

\* _build_live_or_finished_game_response after the team statistics: player
\* statistics, comparison, standings, the two lineups
finished_requests(p) ==
    call_requests(p.sport, "get_player_stats", "get_player_stats", p.game_id)
        \o team_vs_requests(p.sport, p.game_id)
        \o standings_requests(p.sport, p.game_id)
        \o lineup_requests(p.sport, p.game_id, p.home_team_id, "get_lineup.home")
        \o lineup_requests(p.sport, p.game_id, p.away_team_id, "get_lineup.away")

\* the call once _get_game_info has settled on info
with_info(p, info) ==
    [p EXCEPT !.info = info,
              !.home_team_id = IF info = None THEN <<>>
                               ELSE get_or_blank(info.val, "home_team_id"),
              !.away_team_id = IF info = None THEN <<>>
                               ELSE get_or_blank(info.val, "away_team_id")]

\* the GETs that follow _get_game_info
requests_after_info(p) ==
    IF status_of(p.info) = "scheduled"
    THEN scheduled_requests(p)
    ELSE call_requests(p.sport, "get_team_stats", "get_team_stats", p.game_id)

\* the widget payload: the game it was built for and its status
details_response(p) ==
    Response(status_of(p.info), IF p.info = None THEN <<>> ELSE <<p.info.val>>, "")

\* the handler in mock mode: the game comes from the static dataset, the rest
\* from the client's mock answers
details_in_mock_mode(p) ==
    LET dataset == mock_games(p.sport)
        info == scan_mock_games(dataset, DOMAIN dataset, p.game_id)
        q == with_info(p, info)
    IN  IF info = None THEN Raised("ValueError")
        ELSE IF status_of(info) = "scheduled" THEN details_response(q)
        ELSE IF mock_answer(p.sport, "get_team_stats", p.game_id).kind = "raised"
        THEN Raised("ValueError")
        ELSE details_response(q)

\* the handler up to its first await
get_game_details_handler(game_id_arg, sport_arg, date_arg) ==
    /\ LET game_id == strip(game_id_arg)
           sport == strip(sport_arg)
           date_param == strip(date_arg)
           p == Call("get_game_details_handler", sport, date_param, game_id, FALSE)
           client == create_client(sport)
       IN  IF client = None
           THEN Begin(p, game_list_cache, <<>>, Raised("ValueError"))
           ELSE IF client.val.use_mock
           THEN Begin(p, game_list_cache, <<>>, details_in_mock_mode(p))
           ELSE LET found == IF date_param # <<>>
                             THEN find_game_in_cache_value(date_param, sport, game_id)
                             ELSE None
                    store == IF date_param # <<>>
                             THEN TTLCache_touch(game_list_cache,
                                                 _make_key(date_param, sport))
                             ELSE game_list_cache
                IN  IF found = None /\ date_param # <<>> /\ valid_date(date_param)
                    THEN Begin(p, store,
                               call_requests(sport, "get_games_by_sport",
                                             "_get_game_info", date_param),
                               None)
                    ELSE LET q == with_info(p, found)
                         IN  Begin(q, store, requests_after_info(q), details_response(q))

\* the handler after an await
details_handler_resume(i, outcome) ==
    LET p == pending[i]
        item == Head(p.todo)
        rest == Tail(p.todo)
    IN  IF item.method = "_get_game_info"
        THEN LET games == IF outcome.status = "ok" THEN outcome.games ELSE <<>>
                 q == with_info(p, first_with_id(games, p.game_id))
             IN  Resume(i, q,
                        cache_games_effect(game_list_cache, p.date, p.sport, games),
                        requests_after_info(q), details_response(q))
        ELSE IF item.method = "get_team_stats"
        THEN IF ~usable(p.sport, item, outcome)
             THEN Resume(i, p, game_list_cache, <<>>, Raised(error_of(outcome)))
             ELSE LET ids == outcome.status = "ok"
                      q == [p EXCEPT
                              !.home_team_id = IF p.home_team_id # <<>> \/ ~ids
                                               THEN p.home_team_id ELSE <<"T", "1">>,
                              !.away_team_id = IF p.away_team_id # <<>> \/ ~ids
                                               THEN p.away_team_id ELSE <<"T", "2">>]
                  IN  Resume(i, q, game_list_cache, finished_requests(q),
                             details_response(q))
        ELSE IF usable(p.sport, item, outcome)
        THEN Resume(i, p, game_list_cache, rest, details_response(p))
        ELSE Resume(i, p, game_list_cache,
                    SelectSeq(rest, LAMBDA r : r.method # item.method),
                    details_response(p))

-----------------------------------------------------------------------------
(* The client's methods called directly *)

\* a method of the sport's client up to its first await: the whole call in
\* mock mode, on a bad date and where the base class answers None
client_call(sport, method, key) ==
    /\ LET p == Call(method, sport, <<>>, key, FALSE)
           client == create_client(sport).val
       IN  IF client.use_mock
           THEN Begin(p, game_list_cache, <<>>, mock_answer(sport, method, key))
           ELSE IF method = "get_games_by_sport" /\ ~valid_date(key)
           THEN Begin(p, game_list_cache, <<>>, Raised("ValueError"))
           ELSE Begin(p, game_list_cache, call_requests(sport, method, method, key),
                      Response("none", <<>>, ""))

\* the method after an await
client_resume(i, outcome) ==
    LET p == pending[i]
        item == Head(p.todo)
        rest == Tail(p.todo)
    IN  IF ~usable(p.sport, item, outcome)
        THEN Resume(i, p, game_list_cache, <<>>, Raised(error_of(outcome)))
        ELSE Resume(i, p, game_list_cache, rest,
                    IF item.operation = "games"
                    THEN Response("games", outcome.games, "")
                    ELSE IF outcome.status = "empty"
                    THEN Response("none", <<>>, "")
                    ELSE Response("data", <<>>, ""))

\* upstream answers the GET a suspended call is waiting for
upstream_responds(i, outcome) ==
    /\ i \in 1..Len(pending)
    /\ outcome \in Outcomes(Head(pending[i].todo).operation)
    /\ IF pending[i].call = "get_games_by_sport_handler"
       THEN games_handler_resume(i, outcome)
       ELSE IF pending[i].call = "get_game_details_handler"
       THEN details_handler_resume(i, outcome)
       ELSE client_resume(i, outcome)

-----------------------------------------------------------------------------
(* The server: handlers and clients over the cache, under every configuration *)

HandlerDates == {D1118, DBad}
HandlerSports == {basketball, soccer, golf}
DetailDates == {<<>>, D1118}
DetailIds == {<<"G", "1">>, <<"G", "2">>, <<"M", "1">>}
ClientSports == {basketball, soccer}
ClientKeys == {D1118, <<"M", "1">>}
AllOutcomes == UNION {Outcomes(operation) : operation \in {"games", "team_stats"}}

Init ==
    /\ game_list_cache = EmptyCache
    /\ now = 0
    /\ ret = Returned("init", <<>>, None)
    /\ admitted_at = [c \in Dates \X Sports |-> Never]
    /\ CONFIG \in ConfigValues
    /\ requests = <<>>
    /\ pending = <<>>
    /\ _registry = INITIAL_REGISTRY
    /\ clients = {}
    /\ _requests = NoRequests
    /\ passed_on = NoRequests

Next ==
    \/ \E date \in HandlerDates, sport \in HandlerSports, force_refresh \in BOOLEAN :
            Len(pending) < MaxPending /\ get_games_by_sport_handler(date, sport, force_refresh) /\ NoStamp
    \/ \E game_id \in DetailIds, sport \in ClientSports, date \in DetailDates :
            Len(pending) < MaxPending /\ get_game_details_handler(game_id, sport, date) /\ NoStamp
    \/ \E sport \in ClientSports, key \in ClientKeys :
            \E method \in methods_of(sport) :
                Len(pending) < MaxPending /\ client_call(sport, method, key) /\ NoStamp
    \/ \E i \in 1..MaxPending, outcome \in AllOutcomes :
            upstream_responds(i, outcome) /\ NoStamp
    \/ cache_games(D1118, basketball, <<G001>>) /\ NoStamp
    \/ Tick /\ NoStamp

Spec == Init /\ [][Next]_vars

\* the configurations with the mock flag set or no live API: the handlers and
\* the clients' methods, over a cache that direct calls fill
MockConfigValues ==
    {config \in ConfigValues : config.use_mock_sports_data \/ ~config.has_sports_api}

InitMock ==
    /\ game_list_cache = EmptyCache
    /\ now = 0
    /\ ret = Returned("init", <<>>, None)
    /\ admitted_at = [c \in Dates \X Sports |-> Never]
    /\ CONFIG \in MockConfigValues
    /\ requests = <<>>
    /\ pending = <<>>
    /\ _registry = INITIAL_REGISTRY
    /\ clients = {}
    /\ _requests = NoRequests
    /\ passed_on = NoRequests

NextMock ==
    \/ \E date \in HandlerDates, sport \in HandlerSports, force_refresh \in BOOLEAN :
            Len(pending) < MaxPending /\ get_games_by_sport_handler(date, sport, force_refresh) /\ NoStamp
    \/ \E game_id \in DetailIds, sport \in ClientSports, date \in DetailDates :
            Len(pending) < MaxPending /\ get_game_details_handler(game_id, sport, date) /\ NoStamp
    \/ \E sport \in ClientSports, key \in ClientKeys :
            \E method \in methods_of(sport) :
                Len(pending) < MaxPending /\ client_call(sport, method, key) /\ NoStamp
    \/ \E c \in {<<D1118, basketball>>, <<D1223, soccer>>, <<D1222, basketball>>} :
            cache_games(c[1], c[2], <<G001>>) /\ NoStamp
    \/ Tick /\ NoStamp

SpecMock == InitMock /\ [][NextMock]_vars

-----------------------------------------------------------------------------
(* Properties of mock mode *)

HandlerOps == {"get_games_by_sport_handler", "get_game_details_handler"}

\* the flag a client constructed under the configuration carries
MockMode == BaseSportsClient_init(CONFIG)

\* C9 (frame effect): when the created client is in mock mode, a call of
\* get_games_by_sport_handler or get_game_details_handler, force_refresh
\* included, leaves the cache as it found it: its content, its expiry times and
\* its order of use
C9_MockHandlersLeaveCacheAlone ==
    [][(MockMode /\ Op(ret') \in HandlerOps)
            => game_list_cache' = game_list_cache]_vars

\* a forced refresh in mock mode has returned the mock list while the cache
\* holds a live entry under the same key
C9_Witness ==
    /\ MockMode
    /\ Was("get_games_by_sport_handler", <<D1118, basketball, TRUE>>,
           Response("games", <<MockFinished, MockScheduled>>, ""))
    /\ cached(D1118, basketball) = Some(<<G001>>)

\* C10 (safety): with the mock flag set, or with no live API configured, the
\* clients are in mock mode; no call of any method then sends a GET or waits
\* for one, and every method answers what the static dataset holds for its
\* arguments
C10_MockModeNeverRequests ==
    (CONFIG.use_mock_sports_data \/ ~CONFIG.has_sports_api) =>
        /\ \A sport \in ClientSports : create_client(sport).val.use_mock
        /\ requests = <<>>
        /\ pending = <<>>
        /\ \A sport \in ClientSports :
              (Op(ret) \in methods_of(sport) /\ Args(ret)[1] = sport) =>
                  Val(ret) = mock_answer(sport, Op(ret), Args(ret)[2])

\* the fallback: live data asked for, no API configured, and a method has
\* answered from the dataset without a GET
C10_Witness ==
    /\ ~CONFIG.use_mock_sports_data
    /\ ~CONFIG.has_sports_api
    /\ Was("get_team_stats", <<basketball, <<"M", "1">>>>, Response("data", <<>>, ""))
    /\ requests = <<>>

-----------------------------------------------------------------------------
(* The clients' methods alone, in mock and in live mode *)

\* eight characters that str.isdigit accepts, the last one the superscript two
DSup == <<"2", "0", "2", "5", "1", "1", "1", "sup2">>

CallKeys == {D1118, DBad, DSup, <<"M", "1">>}

NextClient ==
    \/ \E sport \in ClientSports, key \in CallKeys :
            \E method \in methods_of(sport) :
                Len(pending) < MaxPending /\ client_call(sport, method, key) /\ NoStamp
    \/ \E i \in 1..MaxPending, outcome \in AllOutcomes :
            upstream_responds(i, outcome) /\ NoStamp

SpecClient == Init /\ [][NextClient]_vars

DecimalDigits == {"0", "1", "2", "3", "4", "5", "6", "7", "8", "9"}

\* exactly eight decimal digits
EightDecimalDigits(date) ==
    Len(date) = 8 /\ \A i \in 1..Len(date) : date[i] \in DecimalDigits

\* C11 (error handling): get_games_by_sport with a date that is not exactly
\* eight decimal digits raises, in mock and in live mode, and no request for
\* games ever carries such a date upstream
C11_BadDateNeverSent ==
    /\ (Op(ret) = "get_games_by_sport" /\ ~EightDecimalDigits(Args(ret)[2]))
            => Val(ret).kind = "raised"
    /\ \A i \in 1..Len(requests) :
            requests[i].operation = "games" => EightDecimalDigits(requests[i].key)

\* the six kinds of APIErrorCode
APIErrorCode == ErrorCodes \cup {"VALIDATION_ERROR"}

\* C12 (error handling): whatever a method of a sports client raises is an
\* APIError of one of the six kinds; no other exception reaches the caller
C12_OnlyAPIErrors ==
    \A sport \in ClientSports :
        (Op(ret) \in methods_of(sport) /\ Val(ret).kind = "raised")
            => Val(ret).error \in APIErrorCode

\* what a live client raises when upstream answers its GET with HTTP 404
Live404 == Raised(error_of(Outcome("NOT_FOUND", <<>>)))

\* C13 (indistinguishability): in mock mode get_team_stats and get_player_stats
\* for a game the static dataset lacks fail with kind NOT_FOUND, exactly as a
\* live client does on an upstream 404
C13_MockMissIsNotFound ==
    (MockMode /\ Op(ret) \in {"get_team_stats", "get_player_stats"}
              /\ mock_answer(Args(ret)[1], Op(ret), Args(ret)[2]).kind = "raised")
        => Val(ret) = Live404

-----------------------------------------------------------------------------
(* BaseSportsClient._make_request: one GET and the translation of its failure *)

\* the bases of the exceptions the GET, raise_for_status and json can raise
Bases ==
    [ConnectTimeout      |-> {"TimeoutException"},
     ReadTimeout         |-> {"TimeoutException"},
     WriteTimeout        |-> {"TimeoutException"},
     PoolTimeout         |-> {"TimeoutException"},
     TimeoutException    |-> {"TransportError"},
     ConnectError        |-> {"NetworkError"},
     ReadError           |-> {"NetworkError"},
     NetworkError        |-> {"TransportError"},
     TransportError      |-> {"RequestError"},
     TooManyRedirects    |-> {"RequestError"},
     RequestError        |-> {"HTTPError"},
     HTTPStatusError     |-> {"HTTPError"},
     HTTPError           |-> {"Exception"},
     ConnectionResetError |-> {"OSError"},
     OSError             |-> {"Exception"},
     JSONDecodeError     |-> {"ValueError"},
     ValueError          |-> {"Exception"},
     Exception           |-> {}]

\* isinstance(e, class) for an exception e of class raised
RECURSIVE isinstance(_, _)
isinstance(raised, class) ==
    \/ raised = class
    \/ \E base \in Bases[raised] : isinstance(base, class)

\* the except clauses in the order a reordering would try them
except_clauses_request_error_first ==
    <<"RequestError", "TimeoutException", "HTTPStatusError", "ConnectError",
      "OSError", "Exception">>

\* the except clauses of _make_request in the order Python tries them
except_clauses ==
    <<"TimeoutException", "HTTPStatusError", "ConnectError", "RequestError",
      "OSError", "Exception">>

\* the first clause that catches the exception
caught_by(raised) ==
    except_clauses[CHOOSE i \in 1..Len(except_clauses) :
        /\ isinstance(raised, except_clauses[i])
        /\ \A j \in 1..(i - 1) : ~isinstance(raised, except_clauses[j])]

\* what upstream does with one GET: the transport raises, or a response with
\* a status and a body that is JSON or not comes back
Transport(exception) ==
    [exception |-> exception, status |-> 0, is_json |-> FALSE, body |-> <<>>]
HttpResponse(status, is_json, body) ==
    [exception |-> "", status |-> status, is_json |-> is_json, body |-> body]

\* the exception the try block ends with, "" when it returns
try_block(upstream) ==
    IF upstream.exception # "" THEN upstream.exception
    ELSE IF ~(upstream.status \in 200..299) THEN "HTTPStatusError"
    ELSE IF ~upstream.is_json THEN "JSONDecodeError"
    ELSE ""

\* the handler of each clause
_make_request_result(upstream) ==
    LET raised == try_block(upstream)
        clause == caught_by(raised)
    IN  IF raised = "" THEN Response("json", upstream.body, "")
        ELSE IF clause = "TimeoutException" THEN Raised("TIMEOUT")
        ELSE IF clause = "HTTPStatusError"
        THEN IF upstream.status = 404 THEN Raised("NOT_FOUND")
             ELSE IF upstream.status >= 500 THEN Raised("SERVER_ERROR")
             ELSE Raised("UNKNOWN")
        ELSE IF clause \in {"ConnectError", "RequestError", "OSError"}
        THEN Raised("CONNECTION_ERROR")
        ELSE Raised("UNKNOWN")

_make_request(endpoint, upstream) ==
    /\ ret' = Returned("_make_request", <<endpoint, upstream>>,
                       _make_request_result(upstream))
    /\ UNCHANGED <<game_list_cache, now, CONFIG, requests, pending>>

\* the responses and failures upstream is driven through
Timeouts == {"ConnectTimeout", "ReadTimeout", "WriteTimeout", "PoolTimeout"}
NetworkFailures ==
    {"ConnectError", "ReadError", "TooManyRedirects", "ConnectionResetError", "OSError"}
OtherFailures == {"ValueError", "Exception"}
Statuses == {200, 201, 301, 400, 404, 500, 503}
Bodies == {<<>>, <<G002>>}
Upstreams ==
    {Transport(e) : e \in Timeouts \cup NetworkFailures \cup OtherFailures}
        \cup {HttpResponse(s, j, b) : s \in Statuses, j \in BOOLEAN, b \in Bodies}
Endpoints == {"games", "team_stats"}

NextRequest ==
    \E endpoint \in Endpoints, upstream \in Upstreams :
        _make_request(endpoint, upstream) /\ NoStamp

SpecRequest == Init /\ [][NextRequest]_vars

\* the upstream outcome of the _make_request call that has just returned
Upstream == Args(ret)[2]

\* C14: _make_request maps every upstream outcome to exactly one result: a 2xx
\* response with a JSON body is returned as that body; any of the four timeouts
\* raises TIMEOUT; a 404 raises NOT_FOUND; a 5xx raises SERVER_ERROR; connect,
\* request and OS-level network errors raise CONNECTION_ERROR; every other
\* failure, other statuses included, raises UNKNOWN; no failure returns a value
C14_EveryOutcomeTranslated ==
    Op(ret) = "_make_request" =>
        /\ Val(ret) =
              IF Upstream.exception \in Timeouts THEN Raised("TIMEOUT")
              ELSE IF Upstream.exception \in NetworkFailures
              THEN Raised("CONNECTION_ERROR")
              ELSE IF Upstream.exception # "" THEN Raised("UNKNOWN")
              ELSE IF Upstream.status = 404 THEN Raised("NOT_FOUND")
              ELSE IF Upstream.status \in 500..599 THEN Raised("SERVER_ERROR")
              ELSE IF Upstream.status \in 200..299 /\ Upstream.is_json
              THEN Response("json", Upstream.body, "")
              ELSE Raised("UNKNOWN")
        /\ Val(ret).kind = "raised" => Val(ret).error \in ErrorCodes

\* a read timeout has been translated to TIMEOUT
C14_Witness ==
    /\ Op(ret) = "_make_request"
    /\ Upstream.exception = "ReadTimeout"
    /\ Val(ret) = Raised("TIMEOUT")

-----------------------------------------------------------------------------
(* BasketballClient.get_player_stats against the live API, GET by GET *)

\* mapped team-stats rows: the home row, the away row, a row with both ids,
\* a row whose away id is the empty string
HomeRow == [home_team_id |-> <<"T", "1">>]
AwayRow == [away_team_id |-> <<"T", "2">>]
BothRow == [home_team_id |-> <<"T", "3">>, away_team_id |-> <<"T", "4">>]
BlankAwayRow == [away_team_id |-> <<>>]
TeamStatsLists ==
    {<<>>, <<HomeRow>>, <<HomeRow, AwayRow>>, <<AwayRow, HomeRow>>,
     <<BothRow, BothRow>>, <<HomeRow, BlankAwayRow>>, <<HomeRow, AwayRow, BothRow>>}

\* mapped player-stats rows of one team
PlayerStatsLists == {<<>>, <<"p1">>, <<"p2", "p3">>}

\* what one GET comes back as: the mapped rows, or the APIError of _make_request
Answer(status, rows) == [status |-> status, rows |-> rows]
Unanswered == Answer("pending", <<>>)
Answers(operation) ==
    {Answer("ok", rows) :
        rows \in IF operation = "team_stats" THEN TeamStatsLists ELSE PlayerStatsLists}
      \cup {Answer(code, <<>>) : code \in ErrorCodes}

\* one GET with its params and, once it has come back, its answer
Get(operation, game_id, team_id) ==
    [operation |-> operation, game_id |-> game_id, team_id |-> team_id,
     response |-> Unanswered]

\* the teams in the order a reversed loop would visit them
team_ids_away_first(home_team_id, away_team_id) == <<away_team_id, home_team_id>>

\* [home_team_id, away_team_id], the list the loop runs over
team_ids(home_team_id, away_team_id) == <<home_team_id, away_team_id>>

\* the locals of a suspended get_player_stats: the teams to ask for, the
\* position of the loop (0 while get_team_stats is awaited) and the rows so far
PlayerStatsCall(game_id) ==
    [call |-> "get_player_stats", sport |-> basketball, game_id |-> game_id,
     teams |-> <<>>, position |-> 0, all_player_stats |-> <<>>]

\* the call returns or raises
player_stats_done(p, log, val) ==
    /\ pending' = <<>>
    /\ requests' = log
    /\ ret' = Returned("get_player_stats", <<p.sport, p.game_id>>, val)

\* the call sends its next GET and is suspended again
player_stats_await(p, log, operation, team_id) ==
    /\ pending' = <<p>>
    /\ requests' = Append(log, Get(operation, p.game_id, team_id))
    /\ ret' = Returned("await", <<>>, None)

\* get_player_stats(game_id) up to its first await
BasketballClient_get_player_stats(game_id) ==
    /\ pending = <<>>
    /\ LET p == PlayerStatsCall(game_id)
           client == create_client(basketball).val
       IN  IF client.use_mock
           THEN player_stats_done(p, <<>>, mock_answer(basketball, "get_player_stats", game_id))
           ELSE player_stats_await(p, <<>>, "team_stats", <<>>)
    /\ UNCHANGED <<game_list_cache, now, CONFIG>>

\* get_player_stats after the GET it awaits has come back
BasketballClient_get_player_stats_resume(answer) ==
    /\ Len(pending) = 1
    /\ pending[1].call = "get_player_stats"
    /\ LET p == pending[1]
           log == [requests EXCEPT ![Len(requests)].response = answer]
           team_stats == answer.rows
           home_team_id == get_or_blank(team_stats[1], "home_team_id")
           away_team_id == get_or_blank(team_stats[2], "away_team_id")
           teams == team_ids(home_team_id, away_team_id)
           rows == p.all_player_stats \o answer.rows
       IN  IF answer.status \in ErrorCodes
           THEN player_stats_done(p, log, Raised(answer.status))
           ELSE IF p.position = 0
           THEN IF Len(team_stats) < 2
                THEN player_stats_done(p, log, Raised("ValueError"))
                ELSE IF home_team_id = <<>> \/ away_team_id = <<>>
                THEN player_stats_done(p, log, Raised("ValueError"))
                ELSE player_stats_await([p EXCEPT !.teams = teams, !.position = 1],
                                        log, "player_stats", teams[1])
           ELSE IF p.position < Len(p.teams)
           THEN player_stats_await(
                    [p EXCEPT !.position = p.position + 1, !.all_player_stats = rows],
                    log, "player_stats", p.teams[p.position + 1])
           ELSE IF rows = <<>>
           THEN player_stats_done(p, log, Raised("ValueError"))
           ELSE player_stats_done(p, log, Response("data", rows, ""))
    /\ UNCHANGED <<game_list_cache, now, CONFIG>>

PlayerStatsIds == {<<"G", "1">>, <<"M", "1">>}
\* the operation of the GET that is in flight
awaited == IF requests = <<>> THEN "team_stats" ELSE requests[Len(requests)].operation

NextPlayerStats ==
    \/ \E game_id \in PlayerStatsIds :
            BasketballClient_get_player_stats(game_id) /\ NoStamp
    \/ \E answer \in Answers(awaited) :
            BasketballClient_get_player_stats_resume(answer) /\ NoStamp

SpecPlayerStats == Init /\ [][NextPlayerStats]_vars

\* the team-stats rows the first GET came back with
TeamStatsAnswer == requests[1].response.rows

\* two rows at least, a home id in the first and an away id in the second
TeamIdsExtractable ==
    /\ requests[1].response.status = "ok"
    /\ Len(TeamStatsAnswer) >= 2
    /\ "home_team_id" \in DOMAIN TeamStatsAnswer[1]
    /\ TeamStatsAnswer[1].home_team_id # <<>>
    /\ "away_team_id" \in DOMAIN TeamStatsAnswer[2]
    /\ TeamStatsAnswer[2].away_team_id # <<>>

\* C15: against the live API basketball get_player_stats(game_id) sends the
\* team-stats GET first, then one player-stats GET per team, home before away,
\* and returns the rows of the two answers concatenated in that order; when the
\* team stats have fewer than two rows or a team id is missing it raises and no
\* player-stats GET is sent
C15_TeamStatsThenHomeThenAway ==
    /\ Len(requests) <= 3
    /\ \A i \in 1..Len(requests) :
          /\ requests[i].game_id = requests[1].game_id
          /\ requests[i].operation = IF i = 1 THEN "team_stats" ELSE "player_stats"
    /\ Len(requests) >= 2 =>
          /\ TeamIdsExtractable
          /\ requests[2].team_id = TeamStatsAnswer[1].home_team_id
    /\ Len(requests) = 3 => requests[3].team_id = TeamStatsAnswer[2].away_team_id
    /\ (Op(ret) = "get_player_stats" /\ ~MockMode) =>
          /\ Args(ret)[2] = requests[1].game_id
          /\ Val(ret).kind # "raised" =>
                /\ Len(requests) = 3
                /\ Val(ret) = Response("data",
                                  requests[2].response.rows \o requests[3].response.rows, "")
          /\ ~TeamIdsExtractable => (Val(ret).kind = "raised" /\ Len(requests) = 1)

\* both teams' rows have come back and are returned home first
C15_Witness ==
    /\ ~MockMode
    /\ Op(ret) = "get_player_stats"
    /\ Len(requests) = 3
    /\ requests[2].team_id = <<"T", "1">>
    /\ requests[3].team_id = <<"T", "2">>
    /\ Val(ret) = Response("data", <<"p2", "p3", "p1">>, "")

-----------------------------------------------------------------------------
(* SportEndpointConfig: the resolution of an operation name to a path *)

\* operation names in the order sorted() puts them: an upper-case spelling, an
\* attribute every Python object has, the common operation, a name the common
\* endpoints do not define
OperationOrder == <<"Games", "__class__", "games", "nonexistent">>
OperationNames == {OperationOrder[i] : i \in 1..Len(OperationOrder)}
rank(operation) == CHOOSE i \in 1..Len(OperationOrder) : OperationOrder[i] = operation

\* paths are sequences of pieces of text, so that a prefix can be put in front
SportPath == <<"/sport">>
CommonGamesPath == <<"{base}", "/gameList">>
CommonEndpointsClass == <<"<class 'CommonEndpoints'>">>

\* hasattr and getattr on the CommonEndpoints instance: its games property and
\* what every instance of a class carries
hasattr_COMMON_ENDPOINTS(operation) == operation \in {"games", "__class__"}
getattr_COMMON_ENDPOINTS(operation) ==
    IF operation = "games" THEN CommonGamesPath ELSE CommonEndpointsClass

\* a list of the members of a set, in some order
RECURSIVE list(_)
list(set) ==
    IF set = {} THEN <<>>
    ELSE LET x == CHOOSE y \in set : TRUE IN <<x>> \o list(set \ {x})

\* sorted() on a list of operation names
RECURSIVE insert(_, _)
insert(seq, x) ==
    IF seq = <<>> THEN <<x>>
    ELSE IF rank(x) < rank(Head(seq)) THEN <<x>> \o seq
    ELSE <<Head(seq)>> \o insert(Tail(seq), x)
RECURSIVE sorted(_)
sorted(seq) == IF seq = <<>> THEN <<>> ELSE insert(sorted(Tail(seq)), Head(seq))

Path(value) == [kind |-> "returned", value |-> value]
NotSupported(operation, sport_name, available) ==
    [kind |-> "raised", operation |-> operation, sport_name |-> sport_name,
     available |-> available]

\* a resolution that tries the common endpoints first
SportEndpointConfig_get_endpoint_common_first(config, operation) ==
    IF operation \in config.use_common /\ hasattr_COMMON_ENDPOINTS(operation)
    THEN Path(getattr_COMMON_ENDPOINTS(operation))
    ELSE IF operation \in DOMAIN config.endpoints
    THEN Path(config.endpoints[operation])
    ELSE NotSupported(operation, config.sport_name,
            sorted(list(DOMAIN config.endpoints) \o list(config.use_common)))

SportEndpointConfig_get_endpoint(config, operation) ==
    IF operation \in DOMAIN config.endpoints
    THEN Path(config.endpoints[operation])
    ELSE IF operation \in config.use_common /\ hasattr_COMMON_ENDPOINTS(operation)
    THEN Path(getattr_COMMON_ENDPOINTS(operation))
    ELSE NotSupported(operation, config.sport_name,
            sorted(list(DOMAIN config.endpoints) \o list(config.use_common)))

\* the dict list_operations builds: the common entries, then the sport's own
\* written over them
SportEndpointConfig_list_operations(config) ==
    LET common == {op \in config.use_common : hasattr_COMMON_ENDPOINTS(op)}
    IN  [op \in common \cup DOMAIN config.endpoints |->
            IF op \in DOMAIN config.endpoints THEN config.endpoints[op]
            ELSE <<"[common] ">> \o getattr_COMMON_ENDPOINTS(op)]

SportEndpointConfig_has_operation(config, operation) ==
    IF operation \in DOMAIN config.endpoints THEN TRUE
    ELSE IF operation \in config.use_common /\ hasattr_COMMON_ENDPOINTS(operation)
    THEN TRUE
    ELSE FALSE

\* the three methods as calls
get_endpoint(config, operation) ==
    /\ ret' = Returned("get_endpoint", <<config, operation>>,
                       SportEndpointConfig_get_endpoint(config, operation))
    /\ UNCHANGED <<game_list_cache, now, CONFIG, requests, pending>>

list_operations(config) ==
    /\ ret' = Returned("list_operations", <<config, "">>,
                       SportEndpointConfig_list_operations(config))
    /\ UNCHANGED <<game_list_cache, now, CONFIG, requests, pending>>

has_operation_call(config, operation) ==
    /\ ret' = Returned("has_operation", <<config, operation>>,
                       SportEndpointConfig_has_operation(config, operation))
    /\ UNCHANGED <<game_list_cache, now, CONFIG, requests, pending>>

\* the configurations: any of three names as the sport's own, any of three in
\* use_common
EndpointKeys == {"Games", "games", "nonexistent"}
CommonNames == {"__class__", "games", "nonexistent"}
SportEndpointConfigs ==
    {[sport_name |-> "test_sport", endpoints |-> [op \in keys |-> SportPath],
      use_common |-> common] :
        keys \in SUBSET EndpointKeys, common \in SUBSET CommonNames}

NextEndpoints ==
    \/ \E config \in SportEndpointConfigs, operation \in OperationNames :
            get_endpoint(config, operation) /\ NoStamp
    \/ \E config \in SportEndpointConfigs : list_operations(config) /\ NoStamp
    \/ \E config \in SportEndpointConfigs, operation \in OperationNames :
            has_operation_call(config, operation) /\ NoStamp

SpecEndpoints == Init /\ [][NextEndpoints]_vars

\* the configuration and the operation of the call that has just returned
Config == Args(ret)[1]
Operation == Args(ret)[2]

\* C16: for an operation that is both a key of the sport's endpoints and a
\* member of use_common, get_endpoint returns the sport's path and
\* list_operations carries that path without the [common] tag; the common path
\* is returned only for an operation without an entry of the sport's own
C16_SportSpecificWins ==
    /\ (Op(ret) = "get_endpoint" /\ Operation \in DOMAIN Config.endpoints
                                 /\ Operation \in Config.use_common)
          => Val(ret) = Path(Config.endpoints[Operation])
    /\ Op(ret) = "list_operations" =>
          \A X \in DOMAIN Config.endpoints \cap Config.use_common :
              /\ X \in DOMAIN Val(ret)
              /\ Val(ret)[X] = Config.endpoints[X]
              /\ Head(Val(ret)[X]) # "[common] "
    /\ (Op(ret) = "get_endpoint" /\ Val(ret) = Path(CommonGamesPath))
          => Operation \notin DOMAIN Config.endpoints

\* games is in both tables and resolves to the sport's path
C16_Witness ==
    /\ Op(ret) = "get_endpoint"
    /\ Operation = "games"
    /\ "games" \in DOMAIN Config.endpoints
    /\ "games" \in Config.use_common
    /\ Val(ret) = Path(SportPath)

\* the endpoints the common table defines, and the values that are paths
CommonTable == {"games"}
IsPath(result) == result.kind = "returned" /\ result.value \in {SportPath, CommonGamesPath}

\* the operations get_endpoint resolves for a configuration
Resolvable(config) ==
    {op \in OperationNames : SportEndpointConfig_get_endpoint(config, op).kind = "returned"}

\* C17: has_operation returns True exactly when get_endpoint returns a path;
\* matching is exact, so for an operation that is neither a key of the sport's
\* endpoints nor a use_common name the common table defines, has_operation is
\* False and get_endpoint raises; the keys of list_operations are the
\* operations for which has_operation is True
C17_HasOperationExact ==
    /\ Op(ret) = "has_operation" =>
          /\ Val(ret) \in BOOLEAN
          /\ Val(ret) = IsPath(SportEndpointConfig_get_endpoint(Config, Operation))
          /\ (Operation \notin DOMAIN Config.endpoints
                /\ ~(Operation \in Config.use_common /\ Operation \in CommonTable))
                => Val(ret) = FALSE
    /\ (Op(ret) = "get_endpoint"
          /\ Operation \notin DOMAIN Config.endpoints
          /\ ~(Operation \in Config.use_common /\ Operation \in CommonTable))
          => Val(ret).kind = "raised"
    /\ Op(ret) = "list_operations" =>
          DOMAIN Val(ret) =
              {op \in OperationNames : SportEndpointConfig_has_operation(Config, op)}

\* C18: when get_endpoint fails, the error names the sport and lists exactly
\* the operations get_endpoint resolves for that sport
C18_ErrorListsAvailable ==
    (Op(ret) = "get_endpoint" /\ Val(ret).kind = "raised") =>
        /\ Val(ret).sport_name = Config.sport_name
        /\ {Val(ret).available[i] : i \in 1..Len(Val(ret).available)} = Resolvable(Config)

-----------------------------------------------------------------------------
(* SportsClientFactory: the registry and the calls that read and change it *)

cricket == <<"c", "r", "i", "c", "k", "e", "t">>

\* sport names in the order sorted() puts them
SportOrder == <<basketball, cricket, golf, soccer, volleyball>>

\* sorted(cls._registry.keys())
sorted_sports(registry) == SelectSeq(SportOrder, LAMBDA sport : sport \in DOMAIN registry)

\* separator.join(names)
RECURSIVE join(_, _)
join(separator, names) ==
    IF names = <<>> THEN <<>>
    ELSE IF Len(names) = 1 THEN Head(names)
    ELSE Head(names) \o separator \o join(separator, Tail(names))

\* a registration that keeps the class a name already has
registry_setdefault(registry, sport, client_class) ==
    [s \in DOMAIN registry \cup {sport} |->
        IF s \in DOMAIN registry THEN registry[s] ELSE client_class]

\* cls._registry[sport] = client_class
registry_setitem(registry, sport, client_class) ==
    [s \in DOMAIN registry \cup {sport} |->
        IF s = sport THEN client_class ELSE registry[s]]

\* del cls._registry[sport]
registry_delitem(registry, sport) == [s \in DOMAIN registry \ {sport} |-> registry[s]]

\* an error message that lists the sports the class body registers
unsupported_sport_builtin(registry, sport) ==
    [kind |-> "raised", error |-> "ValueError",
     message |-> <<"Unsupported sport: ">> \o sport \o <<". Available: ">>
                    \o join(<<", ">>, sorted_sports(INITIAL_REGISTRY))]

\* the ValueError of create_client
unsupported_sport(registry, sport) ==
    [kind |-> "raised", error |-> "ValueError",
     message |-> <<"Unsupported sport: ">> \o sport \o <<". Available: ">>
                    \o join(<<", ">>, sorted_sports(registry))]

register(sport, client_class) ==
    /\ _registry' = registry_setitem(_registry, sport, client_class)
    /\ ret' = Returned("register", <<sport, client_class>>, None)
    /\ UNCHANGED <<game_list_cache, now, CONFIG, requests, pending, admitted_at, clients,
                   _requests, passed_on>>

unregister(sport) ==
    /\ IF sport \in DOMAIN _registry
       THEN /\ _registry' = registry_delitem(_registry, sport)
            /\ ret' = Returned("unregister", <<sport, "">>, None)
       ELSE /\ _registry' = _registry
            /\ ret' = Returned("unregister", <<sport, "">>,
                               [kind |-> "raised", error |-> "KeyError", message |-> sport])
    /\ UNCHANGED <<game_list_cache, now, CONFIG, requests, pending, admitted_at, clients,
                   _requests, passed_on>>

list_sports_value(registry) == list(DOMAIN registry)

list_sports ==
    /\ ret' = Returned("list_sports", <<<<>>, "">>, list_sports_value(_registry))
    /\ UNCHANGED <<game_list_cache, now, CONFIG, requests, pending, admitted_at, _registry,
                   clients, _requests, passed_on>>

\* a factory in which the class a name had first keeps answering for it
create_client_result_first_wins(sport) ==
    IF create_client(sport) = None THEN unsupported_sport(_registry, sport)
    ELSE [kind |-> "instance",
          class |-> IF sport \in DOMAIN INITIAL_REGISTRY THEN INITIAL_REGISTRY[sport]
                    ELSE _registry[sport],
          use_mock |-> create_client(sport).val.use_mock]

\* what a call of create_client comes back with
create_client_result(sport) ==
    IF create_client(sport) = None THEN unsupported_sport(_registry, sport)
    ELSE [kind |-> "instance", class |-> _registry[sport],
          use_mock |-> create_client(sport).val.use_mock]

\* the caller keeps the instance it was handed
create_client_call(sport) ==
    /\ ret' = Returned("create_client", <<sport, "">>, create_client_result(sport))
    /\ clients' = IF create_client_result(sport).kind = "instance"
                  THEN clients \cup {create_client_result(sport)}
                  ELSE clients
    /\ UNCHANGED <<game_list_cache, now, CONFIG, requests, pending, admitted_at, _registry,
                   _requests, passed_on>>

\* a method of an instance a caller holds: the class of the instance answers
instance_get_sport_name(instance) ==
    /\ instance \in clients
    /\ ret' = Returned("get_sport_name", <<instance.class, "">>,
                       get_sport_name(instance.class))
    /\ UNCHANGED <<game_list_cache, now, CONFIG, requests, pending, admitted_at, _registry,
                   clients, _requests, passed_on>>

\* the instances the classes can yield
Instances ==
    {[kind |-> "instance", class |-> c, use_mock |-> m] : c \in ClientClasses, m \in BOOLEAN}

RegistrySports == {basketball, cricket}
RegistryClasses == {"SoccerClient", "VolleyballClient"}

NextRegistry ==
    \/ \E sport \in RegistrySports, client_class \in RegistryClasses :
            register(sport, client_class)
    \/ \E sport \in RegistrySports : unregister(sport)
    \/ list_sports
    \/ \E sport \in RegistrySports \cup {golf} : create_client_call(sport)
    \/ \E instance \in Instances : instance_get_sport_name(instance)

SpecRegistry == Init /\ [][NextRegistry]_vars

\* the name is in the list
Listed(names, name) == \E i \in 1..Len(names) : names[i] = name

\* the entries of the registry under names other than the given one
Others(registry, sport) == [s \in DOMAIN registry \ {sport} |-> registry[s]]

\* C19: after register(name, C), name is in list_sports() and
\* create_client(name) returns an instance of C; after unregister(name) has
\* removed it, name is not in list_sports() and create_client(name) raises the
\* unsupported-sport error; both leave every other entry as it was
C19_RegisterThenUnregister ==
    [][\A name \in RegistrySports :
        /\ \A C \in RegistryClasses :
              (Op(ret') = "register" /\ Args(ret') = <<name, C>>) =>
                  /\ Listed(list_sports_value(_registry'), name)
                  /\ create_client_result(name)'.kind = "instance"
                  /\ create_client_result(name)'.class = C
                  /\ Others(_registry', name) = Others(_registry, name)
        /\ (Op(ret') = "unregister" /\ Args(ret')[1] = name /\ Val(ret') = None) =>
              /\ ~Listed(list_sports_value(_registry'), name)
              /\ create_client_result(name)'.kind = "raised"
              /\ create_client_result(name)'.error = "ValueError"
              /\ Others(_registry', name) = Others(_registry, name)
      ]_vars

\* basketball was registered again, under another class
C19_Witness ==
    /\ Op(ret) = "register"
    /\ Args(ret) = <<basketball, "SoccerClient">>
    /\ _registry[basketball] = "SoccerClient"
    /\ cricket \in DOMAIN _registry

\* C20: create_client for a sport outside the registry raises an error whose
\* message names the sport asked for and lists every sport registered at the
\* time of the call, and leaves the registry as it was
C20_UnsupportedListsRegistered ==
    [][(Op(ret') = "create_client" /\ Args(ret')[1] \notin DOMAIN _registry) =>
            /\ Val(ret').kind = "raised"
            /\ Val(ret').message =
                  <<"Unsupported sport: ">> \o Args(ret')[1] \o <<". Available: ">>
                      \o join(<<", ">>,
                              SelectSeq(SportOrder, LAMBDA s : s \in DOMAIN _registry))
            /\ _registry' = _registry
      ]_vars

\* golf was asked for while cricket was registered and basketball was not
C20_Witness ==
    /\ Op(ret) = "create_client"
    /\ Args(ret)[1] = golf
    /\ DOMAIN _registry = {cricket, soccer, volleyball}
    /\ Val(ret).kind = "raised"

\* how often the name is in the list
Count(names, name) == Cardinality({i \in 1..Len(names) : names[i] = name})

\* C21: registering a name again replaces its class: list_sports() holds the
\* name once and create_client(name) returns an instance of the class
\* registered last; the instances created before a register or an unregister
\* are the instances they were, and their methods answer as their class does
C21_LastRegistrationWins ==
    [][/\ \A name \in RegistrySports, C \in RegistryClasses :
              (Op(ret') = "register" /\ Args(ret') = <<name, C>>) =>
                  /\ Count(list_sports_value(_registry'), name) = 1
                  /\ create_client_result(name)'.kind = "instance"
                  /\ create_client_result(name)'.class = C
       /\ Op(ret') \in {"register", "unregister"} => clients' = clients
       /\ \A instance \in clients :
              /\ instance \in clients'
              /\ (Op(ret') = "get_sport_name" /\ Args(ret')[1] = instance.class)
                    => Val(ret') = get_sport_name(instance.class)
      ]_vars

\* cricket was registered as soccer, an instance was created, and cricket is
\* now registered as volleyball: the caller still holds the soccer instance
C21_Witness ==
    /\ Op(ret) = "register"
    /\ Args(ret) = <<cricket, "VolleyballClient">>
    /\ _registry[cricket] = "VolleyballClient"
    /\ basketball \in DOMAIN _registry
    /\ _registry[basketball] = "BasketballClient"
    /\ \E instance \in clients : instance.class = "SoccerClient"

-----------------------------------------------------------------------------
(* The response mappers: field maps and _apply_field_mapping *)

\* the field maps as dicts of (upstream field, internal field) items, in the
\* order the dict literals give them
BasketballMapper_get_game_field_map ==
    <<<<"GAME_ID", "game_id">>,
      <<"LEAGUE_ID", "league_id">>,
      <<"LEAGUE_NAME", "league_name">>,
      <<"MATCH_DATE", "match_date">>,
      <<"MATCH_TIME", "match_time">>,
      <<"HOME_TEAM_ID", "home_team_id">>,
      <<"AWAY_TEAM_ID", "away_team_id">>,
      <<"HOME_TEAM_NAME", "home_team_name">>,
      <<"AWAY_TEAM_NAME", "away_team_name">>,
      <<"HOME_SCORE", "home_score">>,
      <<"AWAY_SCORE", "away_score">>,
      <<"STATE", "state">>,
      <<"ARENA_NAME", "arena_name">>,
      <<"COMPE", "compe">>>>

SoccerMapper_get_game_field_map ==
    <<<<"GAME_ID", "game_id">>,
      <<"LEAGUE_NAME", "league_name">>,
      <<"MATCH_DATE", "match_date">>,
      <<"MATCH_TIME", "match_time">>,
      <<"HOME_TEAM_ID", "home_team_id">>,
      <<"AWAY_TEAM_ID", "away_team_id">>,
      <<"HOME_TEAM_NAME", "home_team_name">>,
      <<"AWAY_TEAM_NAME", "away_team_name">>,
      <<"HOME_SCORE", "home_score">>,
      <<"AWAY_SCORE", "away_score">>,
      <<"STATE", "state">>,
      <<"ARENA_NAME", "arena_name">>,
      <<"COMPE", "compe">>>>

SoccerMapper_get_team_stats_field_map ==
    <<<<"GAME_ID", "game_id">>,
      <<"TEAM_ID", "team_id">>,
      <<"HOME_AWAY", "home_away">>,
      <<"totalScoringAtt", "total_scoring_att">>,
      <<"ontargetScoringAtt", "ontarget_scoring_att">>,
      <<"shotOffTarget", "shot_off_target">>,
      <<"attemptsIbox", "attempts_ibox">>,
      <<"attemptsObox", "attempts_obox">>,
      <<"blockedScoringAtt", "blocked_scoring_att">>,
      <<"bigChanceCreated", "big_chance_created">>,
      <<"bigChanceMissed", "big_chance_missed">>,
      <<"bigChanceScored", "big_chance_scored">>,
      <<"goals", "goals">>,
      <<"goalsIbox", "goals_ibox">>,
      <<"goalsObox", "goals_obox">>,
      <<"goalsOpenplay", "goals_openplay">>,
      <<"goalsConceded", "goals_conceded">>,
      <<"goalsConcededIbox", "goals_conceded_ibox">>,
      <<"goalsConcededObox", "goals_conceded_obox">>,
      <<"firstHalfGoals", "first_half_goals">>,
      <<"totalPass", "total_pass">>,
      <<"accuratePass", "accurate_pass">>,
      <<"totalFinalThirdPasses", "total_final_third_passes">>,
      <<"successfulFinalThirdPasses", "successful_final_third_passes">>,
      <<"totalFwdZonePass", "total_fwd_zone_pass">>,
      <<"accurateFwdZonePass", "accurate_fwd_zone_pass">>,
      <<"totalBackZonePass", "total_back_zone_pass">>,
      <<"accurateBackZonePass", "accurate_back_zone_pass">>,
      <<"totalLongBalls", "total_long_balls">>,
      <<"accurateLongBalls", "accurate_long_balls">>,
      <<"totalChippedPass", "total_chipped_pass">>,
      <<"accurateChippedPass", "accurate_chipped_pass">>,
      <<"totalThroughBall", "total_through_ball">>,
      <<"accurateThroughBall", "accurate_through_ball">>,
      <<"totalCross", "total_cross">>,
      <<"accurateCross", "accurate_cross">>,
      <<"totalCrossNocorner", "total_cross_nocorner">>,
      <<"accurateCrossNocorner", "accurate_cross_nocorner">>,
      <<"crosses18yard", "crosses_18yard">>,
      <<"crosses18yardplus", "crosses_18yardplus">>,
      <<"blockedCross", "blocked_cross">>,
      <<"effectiveBlockedCross", "effective_blocked_cross">>,
      <<"possessionPercentage", "possession_percentage">>,
      <<"touches", "touches">>,
      <<"touchesInOppBox", "touches_in_opp_box">>,
      <<"finalThirdEntries", "final_third_entries">>,
      <<"penAreaEntries", "pen_area_entries">>,
      <<"ballRecovery", "ball_recovery">>,
      <<"possLostAll", "poss_lost_all">>,
      <<"possLostCtrl", "poss_lost_ctrl">>,
      <<"possWonDef3rd", "poss_won_def_3rd">>,
      <<"possWonMid3rd", "poss_won_mid_3rd">>,
      <<"possWonAtt3rd", "poss_won_att_3rd">>,
      <<"totalTackle", "total_tackle">>,
      <<"wonTackle", "won_tackle">>,
      <<"interception", "interception">>,
      <<"interceptionWon", "interception_won">>,
      <<"totalClearance", "total_clearance">>,
      <<"effectiveClearance", "effective_clearance">>,
      <<"headClearance", "head_clearance">>,
      <<"effectiveHeadClearance", "effective_head_clearance">>,
      <<"outfielderBlock", "outfielder_block">>,
      <<"sixYardBlock", "six_yard_block">>,
      <<"defensiveActions", "defensive_actions">>,
      <<"duelWon", "duel_won">>,
      <<"duelLost", "duel_lost">>,
      <<"aerialWon", "aerial_won">>,
      <<"aerialLost", "aerial_lost">>,
      <<"totalContest", "total_contest">>,
      <<"wonContest", "won_contest">>,
      <<"challengeLost", "challenge_lost">>,
      <<"dispossessed", "dispossessed">>,
      <<"fkFoulLost", "fk_foul_lost">>,
      <<"fkFoulWon", "fk_foul_won">>,
      <<"totalYellowCard", "total_yellow_card">>,
      <<"attemptedTackleFoul", "attempted_tackle_foul">>,
      <<"fouledFinalThird", "fouled_final_third">>,
      <<"wonCorners", "won_corners">>,
      <<"lostCorners", "lost_corners">>,
      <<"cornerTaken", "corner_taken">>,
      <<"totalCornersIntobox", "total_corners_intobox">>,
      <<"accurateCornersIntobox", "accurate_corners_intobox">>,
      <<"totalOffside", "total_offside">>,
      <<"saves", "saves">>,
      <<"savedIbox", "saved_ibox">>,
      <<"divingSave", "diving_save">>,
      <<"punches", "punches">>,
      <<"goodHighClaim", "good_high_claim">>,
      <<"totalHighClaim", "total_high_claim">>,
      <<"keeperThrows", "keeper_throws">>,
      <<"accurateKeeperThrows", "accurate_keeper_throws">>,
      <<"goalKicks", "goal_kicks">>,
      <<"accurateGoalKicks", "accurate_goal_kicks">>,
      <<"formationUsed", "formation_used">>,
      <<"totalThrows", "total_throws">>,
      <<"accurateThrows", "accurate_throws">>,
      <<"totalLaunches", "total_launches">>,
      <<"accurateLaunches", "accurate_launches">>,
      <<"subsMade", "subs_made">>,
      <<"subsGoals", "subs_goals">>,
      <<"totalFastbreak", "total_fastbreak">>,
      <<"shotFastbreak", "shot_fastbreak">>,
      <<"attFastbreak", "att_fastbreak">>,
      <<"ppda", "ppda">>,
      <<"errorLeadToShot", "error_lead_to_shot">>,
      <<"unsuccessfulTouch", "unsuccessful_touch">>>>

SoccerMapper_get_player_stats_field_map ==
    <<<<"GAME_ID", "game_id">>,
      <<"TEAM_ID", "team_id">>,
      <<"PLAYER_ID", "player_id">>,
      <<"HOME_AWAY", "home_away">>,
      <<"formationPlace", "formation_place">>,
      <<"gameStarted", "game_started">>,
      <<"minsPlayed", "mins_played">>,
      <<"Goals", "goals">>,
      <<"goals", "goals">>,
      <<"goalsOpenplay", "goals_openplay">>,
      <<"winningGoal", "winning_goal">>,
      <<"totalScoringAtt", "total_shots">>,
      <<"ontargetScoringAtt", "shots_on_target">>,
      <<"shotOffTarget", "shots_off_target">>,
      <<"attemptsIbox", "shots_in_box">>,
      <<"attemptsObox", "shots_out_box">>,
      <<"blockedScoringAtt", "shots_blocked">>,
      <<"goalAssist", "assists">>,
      <<"goalAssistOpenplay", "assists_openplay">>,
      <<"totalAttAssist", "key_passes">>,
      <<"bigChanceCreated", "big_chances_created">>,
      <<"totalPass", "total_passes">>,
      <<"accuratePass", "accurate_passes">>,
      <<"totalFinalThirdPasses", "final_third_passes">>,
      <<"successfulFinalThirdPasses", "final_third_passes_accurate">>,
      <<"totalLongBalls", "long_balls">>,
      <<"accurateLongBalls", "long_balls_accurate">>,
      <<"totalCross", "crosses">>,
      <<"accurateCross", "crosses_accurate">>,
      <<"totalTackle", "tackles">>,
      <<"wonTackle", "tackles_won">>,
      <<"interception", "interceptions">>,
      <<"interceptionWon", "interceptions_won">>,
      <<"totalClearance", "clearances">>,
      <<"effectiveClearance", "clearances_effective">>,
      <<"outfielderBlock", "blocks">>,
      <<"aerialWon", "aerial_won">>,
      <<"aerialLost", "aerial_lost">>,
      <<"ballRecovery", "ball_recoveries">>,
      <<"possLostAll", "possession_lost">>,
      <<"dispossessed", "dispossessed">>,
      <<"Touches", "touches">>,
      <<"touches", "touches">>,
      <<"Carries", "carries">>,
      <<"carries", "carries">>,
      <<"progressiveCarries", "progressive_carries">>,
      <<"fouls", "fouls">>,
      <<"wasFouled", "was_fouled">>,
      <<"yellowCard", "yellow_cards">>,
      <<"redCard", "red_cards">>,
      <<"saves", "saves">>,
      <<"savedIbox", "saves_in_box">>,
      <<"divingSave", "diving_saves">>,
      <<"goalsConceded", "goals_conceded">>,
      <<"goalsConcededIbox", "goals_conceded_in_box">>,
      <<"Punches", "punches">>,
      <<"keeperPickUp", "keeper_pickups">>,
      <<"penAreaEntries", "pen_area_entries">>,
      <<"touchesInOppBox", "touches_in_opp_box">>,
      <<"touchesInFinalThird", "touches_in_final_third">>,
      <<"totalOffside", "offsides">>>>

VolleyballMapper_get_game_field_map ==
    <<<<"GAME_ID", "game_id">>,
      <<"LEAGUE_NAME", "league_name">>,
      <<"MATCH_DATE", "match_date">>,
      <<"MATCH_TIME", "match_time">>,
      <<"HOME_TEAM_ID", "home_team_id">>,
      <<"AWAY_TEAM_ID", "away_team_id">>,
      <<"HOME_TEAM_NAME", "home_team_name">>,
      <<"AWAY_TEAM_NAME", "away_team_name">>,
      <<"HOME_SCORE", "home_score">>,
      <<"AWAY_SCORE", "away_score">>,
      <<"STATE", "state">>,
      <<"ARENA_NAME", "arena_name">>,
      <<"COMPE", "compe">>>>

FootballMapper_get_game_field_map ==
    <<<<"GAME_ID", "game_id">>,
      <<"LEAGUE_NAME", "league_name">>,
      <<"MATCH_DATE", "match_date">>,
      <<"MATCH_TIME", "match_time">>,
      <<"HOME_TEAM_ID", "home_team_id">>,
      <<"AWAY_TEAM_ID", "away_team_id">>,
      <<"HOME_TEAM_NAME", "home_team_name">>,
      <<"AWAY_TEAM_NAME", "away_team_name">>,
      <<"HOME_SCORE", "home_score">>,
      <<"AWAY_SCORE", "away_score">>,
      <<"STATE", "state">>,
      <<"ARENA_NAME", "arena_name">>,
      <<"COMPE", "compe">>>>

MapperClasses == {"BasketballMapper", "SoccerMapper", "VolleyballMapper", "FootballMapper"}
MapKinds == {"game", "team_stats", "player_stats"}

\* get_game_field_map / get_team_stats_field_map / get_player_stats_field_map of
\* each mapper; the maps not listed above are empty dicts
get_field_map(mapper, kind) ==
    IF kind = "game"
    THEN IF mapper = "BasketballMapper" THEN BasketballMapper_get_game_field_map
         ELSE IF mapper = "SoccerMapper" THEN SoccerMapper_get_game_field_map
         ELSE IF mapper = "VolleyballMapper" THEN VolleyballMapper_get_game_field_map
         ELSE FootballMapper_get_game_field_map
    ELSE IF mapper = "SoccerMapper"
    THEN IF kind = "team_stats" THEN SoccerMapper_get_team_stats_field_map
         ELSE SoccerMapper_get_player_stats_field_map
    ELSE <<>>

\* the keys and the values of a field map
api_fields(field_map) == {field_map[i][1] : i \in 1..Len(field_map)}
internal_fields(field_map) == {field_map[i][2] : i \in 1..Len(field_map)}

\* the first loop: each item whose upstream field is in the data writes the
\* value under its internal field, a later item over an earlier one
mapped_fields(data, field_map) ==
    LET present == {i \in 1..Len(field_map) : field_map[i][1] \in DOMAIN data}
        writes(n) == {i \in present : field_map[i][2] = n}
        last(n) == CHOOSE i \in writes(n) : \A j \in writes(n) : j <= i
    IN  [n \in {field_map[i][2] : i \in present} |-> data[field_map[last(n)][1]]]

\* a mapping that keeps the mapped fields only
_apply_field_mapping_mapped_only(data, field_map) ==
    IF field_map = <<>> THEN data ELSE mapped_fields(data, field_map)

\* BaseResponseMapper._apply_field_mapping
_apply_field_mapping(data, field_map) ==
    IF field_map = <<>> THEN data
    ELSE LET mapped == mapped_fields(data, field_map)
             kept == {key \in DOMAIN data :
                         key \notin api_fields(field_map) /\ key \notin DOMAIN mapped}
         IN  [key \in DOMAIN mapped \cup kept |->
                 IF key \in DOMAIN mapped THEN mapped[key] ELSE data[key]]

\* the mapping applied to the record the last step left: the raw record first,
\* then the mapped one
apply_field_mapping_call ==
    /\ Op(ret) \in {"raw", "_apply_field_mapping"}
    /\ LET data == Val(ret)
           id == Args(ret)[2]
       IN  ret' = Returned("_apply_field_mapping", <<data, id>>,
                           _apply_field_mapping(data, get_field_map(id[1], id[2])))
    /\ UNCHANGED <<game_list_cache, now, CONFIG, requests, pending>>

\* raw records: one or two fields out of the upstream names of the map, its
\* internal names and a name the map does not know
FieldNames(field_map) == api_fields(field_map) \cup internal_fields(field_map) \cup {"extra"}
RawRecords(field_map) ==
    {[key \in {a, b} |-> IF key = a THEN "v1" ELSE "v2"] :
        a \in FieldNames(field_map), b \in FieldNames(field_map)}

InitMapping ==
    /\ game_list_cache = EmptyCache
    /\ now = 0
    /\ \E mapper \in MapperClasses, kind \in MapKinds :
          \E data \in RawRecords(get_field_map(mapper, kind)) :
              ret = Returned("raw", <<data, <<mapper, kind>>>>, data)
    /\ admitted_at = [c \in Dates \X Sports |-> Never]
    /\ CONFIG = [use_mock_sports_data |-> TRUE, has_sports_api |-> FALSE]
    /\ requests = <<>>
    /\ pending = <<>>
    /\ _registry = INITIAL_REGISTRY
    /\ clients = {}
    /\ _requests = NoRequests
    /\ passed_on = NoRequests

NextMapping == apply_field_mapping_call /\ NoStamp

SpecMapping == InitMapping /\ [][NextMapping]_vars

\* the field map of the call that has just returned, and dict lookup in it
FieldMapUsed == get_field_map(Args(ret)[2][1], Args(ret)[2][2])
Lookup(field_map, key) ==
    field_map[CHOOSE i \in 1..Len(field_map) : field_map[i][1] = key][2]

\* the name a field of the raw record is to be found under
Target(field_map, key) ==
    IF key \in api_fields(field_map) THEN Lookup(field_map, key) ELSE key

\* C22: with a non-empty field map, the output of _apply_field_mapping holds,
\* for each field of the record, the record's value of it: under the mapped
\* name when the map has the field and under its own name otherwise
C22_NoValueLost ==
    (Op(ret) = "_apply_field_mapping" /\ FieldMapUsed # <<>>) =>
        \A key \in DOMAIN Args(ret)[1] :
            /\ Target(FieldMapUsed, key) \in DOMAIN Val(ret)
            /\ Val(ret)[Target(FieldMapUsed, key)] = Args(ret)[1][key]

\* C25: _apply_field_mapping applied with the same field map to a record it
\* has returned gives that record again, for the game, team-stats and
\* player-stats field maps of every sport
C25_MappingTwiceIsNoOp ==
    [][(Op(ret) = "_apply_field_mapping" /\ Op(ret') = "_apply_field_mapping")
          => Val(ret') = Val(ret)]_vars

\* a mapped soccer player record went through the map once more
C25_Witness ==
    /\ Op(ret) = "_apply_field_mapping"
    /\ Args(ret)[2] = <<"SoccerMapper", "player_stats">>
    /\ DOMAIN Val(ret) = {"goals", "extra"}
    /\ Args(ret)[1] = Val(ret)

-----------------------------------------------------------------------------
(* The response mappers: finding the list in the envelope *)

\* JSON values by their Python type; the string is "x"
JList(items) == [type |-> "list", val |-> items]
JDict(entries) == [type |-> "dict", val |-> entries]
JNone == [type |-> "NoneType", val |-> <<>>]
JStr == [type |-> "str", val |-> <<>>]
JInt == [type |-> "int", val |-> <<>>]

\* key in d, for a dict d
has_key(d, key) == key \in DOMAIN d.val

\* [self._apply_field_mapping(row, field_map) for row in rows]
map_rows(rows, field_map) ==
    [i \in 1..Len(rows) |-> _apply_field_mapping(rows[i], field_map)]

\* the for loop over the legacy keys: the list under the first key that holds one
legacy_list(api_response, keys) ==
    LET hits == {i \in 1..Len(keys) :
                    has_key(api_response, keys[i]) /\ api_response.val[keys[i]].type = "list"}
    IN  IF hits = {} THEN None
        ELSE Some(api_response.val[keys[CHOOSE i \in hits : \A j \in hits : i <= j]].val)

BasketballMapper_get_lineup_field_map ==
    <<<<"PLAYER_ID", "player_id">>,
      <<"PLAYER_NAME", "player_name">>,
      <<"BACK_NO", "back_no">>,
      <<"POS_NO", "pos_no">>>>

\* BaseResponseMapper.map_games_list
map_games_list(mapper, api_response) ==
    LET field_map == get_field_map(mapper, "game")
        games_list == IF has_key(api_response.val["Data"], "list")
                      THEN api_response.val["Data"].val["list"]
                      ELSE JList(<<>>)
        legacy == legacy_list(api_response, <<"games", "data", "results", "items", "list">>)
    IN  IF api_response.type = "list"
        THEN Response("list", map_rows(api_response.val, field_map), "")
        ELSE IF api_response.type = "dict"
        THEN IF has_key(api_response, "Data") /\ api_response.val["Data"].type = "dict"
                    /\ games_list.type = "list"
             THEN Response("list", map_rows(games_list.val, field_map), "")
             ELSE IF legacy # None
             THEN Response("list", map_rows(legacy.val, field_map), "")
             ELSE Response("list", <<>>, "")
        ELSE Response("list", <<>>, "")

\* the body map_team_stats_list and map_player_stats_list share
stats_list(api_response, field_map, keys) ==
    LET data == api_response.val["Data"]
        legacy == legacy_list(api_response, keys)
    IN  IF api_response.type = "list"
        THEN Response("list", map_rows(api_response.val, field_map), "")
        ELSE IF api_response.type = "dict"
        THEN IF has_key(api_response, "Data") /\ data.type = "dict" /\ has_key(data, "list")
                    /\ data.val["list"].type = "list"
             THEN Response("list", map_rows(data.val["list"].val, field_map), "")
             ELSE IF has_key(api_response, "Data") /\ data.type = "list"
             THEN Response("list", map_rows(data.val, field_map), "")
             ELSE IF legacy # None
             THEN Response("list", map_rows(legacy.val, field_map), "")
             ELSE Response("list", <<>>, "")
        ELSE Response("list", <<>>, "")

map_team_stats_list(mapper, api_response) ==
    stats_list(api_response, get_field_map(mapper, "team_stats"),
               <<"team_stats", "teams", "data", "list">>)

map_player_stats_list(mapper, api_response) ==
    stats_list(api_response, get_field_map(mapper, "player_stats"),
               <<"player_stats", "players", "data", "list">>)

\* BasketballMapper.map_lineup_list; map_team_rank_list has the same body:
\* response.get("Data", {}).get("list", []) and a loop over what comes back
BasketballMapper_map_lineup_list(response) ==
    LET data == IF has_key(response, "Data") THEN response.val["Data"] ELSE JDict(<<>>)
        items == IF has_key(data, "list") THEN data.val["list"] ELSE JList(<<>>)
    IN  IF response.type # "dict" THEN Raised("AttributeError")
        ELSE IF data.type # "dict" THEN Raised("AttributeError")
        ELSE IF items.type = "list"
        THEN Response("list", map_rows(items.val, BasketballMapper_get_lineup_field_map), "")
        ELSE IF items.type \in {"NoneType", "int"} THEN Raised("TypeError")
        ELSE IF items.type = "dict" /\ DOMAIN items.val = {}
        THEN Response("list", <<>>, "")
        ELSE Raised("AttributeError")

\* the responses: a list of rows in each of the shapes, and values that hold none
Rows == {<<>>, <<[GAME_ID |-> "v1"]>>, <<[GAME_ID |-> "v1"], [extra |-> "v2"]>>}
LegacyKeys == {"games", "data", "results", "items", "list"}
SupportedShapes == {"bare", "Data.list", "Data"} \cup LegacyKeys
UnrecognizedShapes ==
    {"None", "str", "int", "{}", "Data: str", "Data: None", "Data.list: str",
     "Data.list: None", "games: str", "other: list"}
Envelope(shape, L) ==
    IF shape = "bare" THEN JList(L)
    ELSE IF shape = "Data.list" THEN JDict([k \in {"Data"} |-> JDict([j \in {"list"} |-> JList(L)])])
    ELSE IF shape = "Data" THEN JDict([k \in {"Data"} |-> JList(L)])
    ELSE IF shape \in LegacyKeys THEN JDict([k \in {shape} |-> JList(L)])
    ELSE IF shape = "None" THEN JNone
    ELSE IF shape = "str" THEN JStr
    ELSE IF shape = "int" THEN JInt
    ELSE IF shape = "{}" THEN JDict(<<>>)
    ELSE IF shape = "Data: str" THEN JDict([k \in {"Data"} |-> JStr])
    ELSE IF shape = "Data: None" THEN JDict([k \in {"Data"} |-> JNone])
    ELSE IF shape = "Data.list: str" THEN JDict([k \in {"Data"} |-> JDict([j \in {"list"} |-> JStr])])
    ELSE IF shape = "Data.list: None" THEN JDict([k \in {"Data"} |-> JDict([j \in {"list"} |-> JNone])])
    ELSE IF shape = "games: str" THEN JDict([k \in {"games"} |-> JStr])
    ELSE JDict([k \in {"other"} |-> JList(L)])

ListOperations ==
    {"map_games_list", "map_team_stats_list", "map_player_stats_list", "map_lineup_list"}

\* one of the list operations on the response that has arrived
map_list_call ==
    /\ Op(ret) = "response"
    /\ LET mapper == Args(ret)[1]
           operation == Args(ret)[2]
           api_response == Envelope(Args(ret)[3], Args(ret)[4])
       IN  ret' = Returned(operation, Args(ret),
                    IF operation = "map_games_list" THEN map_games_list(mapper, api_response)
                    ELSE IF operation = "map_team_stats_list"
                    THEN map_team_stats_list(mapper, api_response)
                    ELSE IF operation = "map_player_stats_list"
                    THEN map_player_stats_list(mapper, api_response)
                    ELSE BasketballMapper_map_lineup_list(api_response))
    /\ UNCHANGED <<game_list_cache, now, CONFIG, requests, pending>>

InitEnvelope ==
    /\ game_list_cache = EmptyCache
    /\ now = 0
    /\ \E mapper \in {"BasketballMapper", "SoccerMapper"}, operation \in ListOperations,
          shape \in SupportedShapes \cup UnrecognizedShapes, L \in Rows :
              /\ operation = "map_lineup_list" => mapper = "BasketballMapper"
              /\ ret = Returned("response", <<mapper, operation, shape, L>>, None)
    /\ admitted_at = [c \in Dates \X Sports |-> Never]
    /\ CONFIG = [use_mock_sports_data |-> TRUE, has_sports_api |-> FALSE]
    /\ requests = <<>>
    /\ pending = <<>>
    /\ _registry = INITIAL_REGISTRY
    /\ clients = {}
    /\ _requests = NoRequests
    /\ passed_on = NoRequests

NextEnvelope == map_list_call /\ NoStamp

SpecEnvelope == InitEnvelope /\ [][NextEnvelope]_vars

\* C23: for the same list L of raw games, map_games_list returns the same
\* normalized list for the bare list, {"Data": {"list": L}}, {"Data": L} and
\* {k: L} for each of the legacy keys
C23_SameListForEveryEnvelope ==
    (Op(ret) = "map_games_list" /\ Args(ret)[3] \in SupportedShapes) =>
        Val(ret) = map_games_list(Args(ret)[1], JList(Args(ret)[4]))

\* C24: on a response that is none of the supported shapes the list operations
\* of the mapper do not raise and return an empty result
C24_UnrecognizedIsEmpty ==
    (Op(ret) \in ListOperations /\ Args(ret)[3] \in UnrecognizedShapes) =>
        Val(ret) = Response("list", <<>>, "")

-----------------------------------------------------------------------------
(* Live mode: handler calls that overlap at their awaits, over one cache *)

\* how many calls may be suspended at once
MaxLive == 2

LiveConfig == [use_mock_sports_data |-> FALSE, has_sports_api |-> TRUE]
LiveDates == {D1118, D1222, D1223}
RefreshDates == {D1118, D1222}
LiveSport == basketball
LiveGameId == <<"G", "1">>

\* the responses upstream gives in the live runs
LiveOutcomes ==
    {Outcome("ok", games) : games \in UpstreamLists} \cup {Outcome("TIMEOUT", <<>>)}

\* the task of the i-th suspended call is cancelled: CancelledError is raised
\* at its await and nothing after the await runs
cancel(i) ==
    /\ i \in 1..Len(pending)
    /\ pending' = RemoveAt(pending, i)
    /\ ret' = Returned(pending[i].call, ArgsOf(pending[i]), Raised("CancelledError"))
    /\ UNCHANGED <<game_list_cache, now, CONFIG, requests>>

InitLive ==
    /\ game_list_cache = EmptyCache
    /\ now = 0
    /\ ret = Returned("init", <<>>, None)
    /\ admitted_at = [c \in Dates \X Sports |-> Never]
    /\ CONFIG = LiveConfig
    /\ requests = <<>>
    /\ pending = <<>>
    /\ _registry = INITIAL_REGISTRY
    /\ clients = {}
    /\ _requests = NoRequests
    /\ passed_on = NoRequests

\* the games handler called again while earlier calls are suspended, as time
\* passes
NextLive ==
    \/ \E date \in RefreshDates, force_refresh \in BOOLEAN :
            Len(pending) < MaxLive
                /\ get_games_by_sport_handler(date, LiveSport, force_refresh) /\ NoStamp
    \/ \E i \in 1..MaxLive, outcome \in LiveOutcomes :
            upstream_responds(i, outcome) /\ NoStamp
    \/ \E i \in 1..MaxLive : cancel(i) /\ NoStamp
    \/ Tick /\ NoStamp

SpecLive == InitLive /\ [][NextLive]_vars

\* both handlers, at most one details call among the suspended ones, while
\* the clock stands still
NextConcurrent ==
    \/ \E date \in LiveDates, force_refresh \in BOOLEAN :
            Len(pending) < MaxLive
                /\ get_games_by_sport_handler(date, LiveSport, force_refresh) /\ NoStamp
    \/ /\ Len(pending) < MaxLive
       /\ \A j \in 1..Len(pending) : pending[j].call # "get_game_details_handler"
       /\ get_game_details_handler(LiveGameId, LiveSport, D1118)
       /\ NoStamp
    \/ \E i \in 1..MaxLive, outcome \in LiveOutcomes :
            upstream_responds(i, outcome) /\ NoStamp
    \/ \E i \in 1..MaxLive : cancel(i) /\ NoStamp

SpecConcurrent == InitLive /\ [][NextConcurrent]_vars

\* the GET for the games of a date
GamesRequest(date) == Request(LiveSport, [operation |-> "games", key |-> date])

refresh_begins(date) ==
    get_games_by_sport_handler(date, LiveSport, TRUE) =>
        /\ TTLCache_get(game_list_cache', _make_key(date, LiveSport), now') = None
        /\ requests' = <<GamesRequest(date)>>
        /\ Len(pending') = Len(pending) + 1
        /\ pending'[Len(pending')].force_refresh
        /\ Op(ret') = "await"

\* the response has a game that passes validation
fresh(outcome) == outcome.status = "ok" /\ _validate_games(outcome.games) # <<>>

\* the i-th suspended call was made with force_refresh and gets its response
refresh_resumes(i, outcome) ==
    /\ pending[i].call = "get_games_by_sport_handler"
    /\ pending[i].force_refresh
    /\ upstream_responds(i, outcome)

\* C27 as stated (temporal): with force_refresh the handler removes the entry
\* before fetching, always sends a request and never returns the cached list;
\* after a fetch that failed or had no valid game the entry is absent, after
\* one that succeeded it is the validated subset of the fresh response
C27_RefreshLeavesEntryAbsent ==
    [][/\ \A date \in RefreshDates : refresh_begins(date)
       /\ \A i \in 1..Len(pending), outcome \in LiveOutcomes :
            refresh_resumes(i, outcome) =>
                TTLCache_get(game_list_cache', _make_key(pending[i].date, LiveSport), now')
                    = IF fresh(outcome) THEN Some(_validate_games(outcome.games))
                      ELSE None]_vars

\* C27 amended: as above, but a fetch that failed or had no valid game leaves
\* the cache as it finds it, where another call may have admitted the key
\* since the entry was removed
C27_RefreshWritesOnlyFreshData ==
    [][/\ \A date \in RefreshDates : refresh_begins(date)
       /\ \A i \in 1..Len(pending), outcome \in LiveOutcomes :
            refresh_resumes(i, outcome) =>
                IF fresh(outcome)
                THEN TTLCache_get(game_list_cache',
                                  _make_key(pending[i].date, LiveSport), now')
                        = Some(_validate_games(outcome.games))
                ELSE game_list_cache' = game_list_cache]_vars

\* a forced refresh has failed while the other date is cached: its own entry
\* is absent
C27_Witness ==
    /\ Was("get_games_by_sport_handler", <<D1118, LiveSport, TRUE>>, Raised("TIMEOUT"))
    /\ cached(D1118, LiveSport) = None
    /\ cached(D1222, LiveSport) # None

\* the lists cache_games stores for the responses upstream may give
ValidatedResponses == {_validate_games(games) : games \in UpstreamLists} \ {<<>>}

\* every entry of the store is the validated subset of one response
SingleResponse ==
    \A key \in DOMAIN game_list_cache.items :
        game_list_cache.items[key] \in ValidatedResponses

\* the step is one of a call for the date: the call starts, gets a response or
\* is cancelled
acts_on(date) ==
    \/ \E force_refresh \in BOOLEAN :
            get_games_by_sport_handler(date, LiveSport, force_refresh)
    \/ date = D1118 /\ get_game_details_handler(LiveGameId, LiveSport, D1118)
    \/ \E i \in 1..Len(pending) :
            /\ pending[i].date = date
            /\ \/ cancel(i)
               \/ \E outcome \in LiveOutcomes : upstream_responds(i, outcome)

\* what get_cached_games returns for the date differs after the step
changed(date) == cached_after(date, LiveSport) # cached(date, LiveSport)

\* the step admits another date into the full store and the date, the least
\* recently used one, is evicted whole
evicted(date) ==
    /\ Cardinality(DOMAIN LiveView(game_list_cache, now).items) = MaxSize
    /\ _make_key(date, LiveSport) = Head(LiveView(game_list_cache, now).links)
    /\ cached_after(date, LiveSport) = None
    /\ \E other \in LiveDates \ {date} :
            /\ acts_on(other)
            /\ cached(other, LiveSport) = None
            /\ cached_after(other, LiveSport) # None

\* C28 as stated (concurrency): while calls of the two handlers for one
\* (date, sport) overlap and are cancelled in any order, the entry of that key
\* is absent or the validated subset of one single response, and the entry of
\* a key changes only in the steps of calls for that key
C28_OneResponseOtherKeysUntouched ==
    []SingleResponse /\ [][\A date \in LiveDates : changed(date) => acts_on(date)]_vars

\* C28 amended: as above, except that a call admitting its key into a store
\* that holds max_size entries evicts the least recently used entry
C28_OneResponseOtherKeysEvicted ==
    /\ []SingleResponse
    /\ [][\A date \in LiveDates : changed(date) => (acts_on(date) \/ evicted(date))]_vars

\* a games call was cancelled while a details call for the same date is
\* suspended, and the entry of the date is the subset of one response
C28_Witness ==
    /\ Was("get_games_by_sport_handler", <<D1118, LiveSport, FALSE>>, Raised("CancelledError"))
    /\ Len(pending) = 1
    /\ pending[1].call = "get_game_details_handler"
    /\ cached(D1118, LiveSport) = Some(<<G001x>>)

\* C29 (refinement): in live mode the list the games handler formats on a
\* cache hit is the list it formatted on the miss that filled the cache: when
\* a call that fetched returns a list of games and the entry is in the cache,
\* the entry, which the next call formats, is the list that call formatted
C29_HitFormatsWhatMissFormatted ==
    [][\A i \in 1..Len(pending), outcome \in LiveOutcomes :
            (/\ pending[i].call = "get_games_by_sport_handler"
             /\ upstream_responds(i, outcome)
             /\ Val(ret').kind = "games"
             /\ cached_after(pending[i].date, LiveSport) # None) =>
                    Response("games", cached_after(pending[i].date, LiveSport).val, "")
                        = Val(ret')]_vars

-----------------------------------------------------------------------------
(* middleware/rate_limit.py: the sliding window of requests per client *)

\* the window and the limit, in ticks of the clock and in requests
window_seconds == 2
requests_per_minute == 1

\* the middleware is constructed with rate limiting on
enabled == TRUE

\* a request: its path, the entries of its X-Forwarded-For header between the
\* commas (none when the header is absent) and the peer's address, if known
HttpRequest(path, forwarded, client) ==
    [path |-> path, forwarded |-> forwarded, client |-> client]

HttpRequests ==
    {HttpRequest(path, forwarded, client) :
        path \in {"/health", "/mcp"},
        forwarded \in {<<>>, <<<<" ", "a">>, <<"b">>>>},
        client \in {None, Some(<<"b">>)}}

_get_client_ip(request) ==
    IF request.forwarded # <<>> THEN strip(Head(request.forwarded))
    ELSE IF request.client # None THEN request.client.val
    ELSE unknown

max(a, b) == IF a >= b THEN a ELSE b

_clean_old_requests(recorded, ip, current_time) ==
    LET cutoff == current_time - window_seconds
    IN  [recorded EXCEPT ![ip] = SelectSeq(@, LAMBDA req : req > cutoff)]

\* a limiter that lets one request more through
_is_rate_limited_one_more(recorded, ip, current_time) ==
    LET cleaned == _clean_old_requests(recorded, ip, current_time)
        request_count == Len(cleaned[ip])
        remaining == max(0, requests_per_minute - request_count)
    IN  IF request_count > requests_per_minute
        THEN [is_limited |-> TRUE, remaining |-> 0, _requests |-> cleaned]
        ELSE [is_limited |-> FALSE, remaining |-> remaining - 1,
              _requests |-> [cleaned EXCEPT ![ip] = Append(@, current_time)]]

\* _is_rate_limited at the time the clock shows: the pair it returns and the
\* record it leaves
_is_rate_limited(recorded, ip, current_time) ==
    LET cleaned == _clean_old_requests(recorded, ip, current_time)
        request_count == Len(cleaned[ip])
        remaining == max(0, requests_per_minute - request_count)
    IN  IF request_count >= requests_per_minute
        THEN [is_limited |-> TRUE, remaining |-> 0, _requests |-> cleaned]
        ELSE [is_limited |-> FALSE, remaining |-> remaining - 1,
              _requests |-> [cleaned EXCEPT ![ip] = Append(@, current_time)]]

\* a response: its status and the X-RateLimit-Remaining header, Never when
\* the header is not set
HttpAnswer(status, remaining) == [status |-> status, remaining |-> remaining]

dispatch(request) ==
    /\ IF ~enabled \/ request.path = "/health"
       THEN /\ ret' = Returned("dispatch", <<request>>, HttpAnswer(200, Never))
            /\ UNCHANGED <<_requests, passed_on>>
       ELSE LET client_ip == _get_client_ip(request)
                limited == _is_rate_limited(_requests, client_ip, now)
            IN  /\ _requests' = limited._requests
                /\ IF limited.is_limited
                   THEN /\ ret' = Returned("dispatch", <<request>>, HttpAnswer(429, 0))
                        /\ passed_on' = passed_on
                   ELSE /\ ret' = Returned("dispatch", <<request>>,
                                           HttpAnswer(200, limited.remaining))
                        /\ passed_on' = [passed_on EXCEPT ![client_ip] = Append(@, now)]
    /\ UNCHANGED <<game_list_cache, now, CONFIG, requests, pending, admitted_at, _registry,
                   clients>>

NextRateLimit ==
    \/ \E request \in HttpRequests : dispatch(request)
    \/ Tick /\ NoStamp

SpecRateLimit == InitLive /\ [][NextRateLimit]_vars

\* the limited requests of the ip that were passed on in the window (t - window, t]
PassedIn(ip, t) ==
    {i \in 1..Len(passed_on[ip]) :
        passed_on[ip][i] > t - window_seconds /\ passed_on[ip][i] <= t}

\* C30 (safety): for every client ip and every instant, the requests of the ip
\* passed on to the application within the window ending at that instant are
\* at most requests_per_minute; a request that finds the window full is
\* answered 429 and not recorded, recorded requests older than the window are
\* forgotten, and requests of other ips or to /health leave the record of an
\* ip as it was
C30_AtMostLimitPerWindow ==
    /\ [](\A ip \in ClientIps, t \in 0..now :
                Cardinality(PassedIn(ip, t)) <= requests_per_minute)
    /\ [][\A request \in HttpRequests :
            LET ip == _get_client_ip(request)
                kept == SelectSeq(_requests[ip], LAMBDA req : req > now - window_seconds)
            IN  (Op(ret') = "dispatch" /\ Args(ret') = <<request>>) =>
                    IF request.path = "/health"
                    THEN /\ Val(ret').status = 200
                         /\ _requests' = _requests
                         /\ passed_on' = passed_on
                    ELSE /\ Val(ret').status = 429 <=> Len(kept) >= requests_per_minute
                         /\ Val(ret').status = 429 =>
                                _requests'[ip] = kept /\ passed_on' = passed_on
                         /\ Val(ret').status = 200 =>
                                /\ _requests'[ip] = Append(kept, now)
                                /\ passed_on'[ip] = Append(passed_on[ip], now)
                         /\ \A other \in ClientIps \ {ip} :
                                /\ _requests'[other] = _requests[other]
                                /\ passed_on'[other] = passed_on[other]]_vars

\* a client behind the proxy is refused after its earlier requests were
\* forgotten and the limit was reached again, while another client is not
C30_Witness ==
    /\ Op(ret) = "dispatch"
    /\ _get_client_ip(Args(ret)[1]) = <<"a">>
    /\ Val(ret).status = 429
    /\ Len(passed_on[<<"a">>]) > requests_per_minute
    /\ Len(passed_on[<<"b">>]) = 1

=============================================================================
